---- MODULE Spec2Model ----
(***************************************************************************)
(* A model of colchis: the block-compressed text store with its LRU cache  *)
(* (src/src/text/compressed_storage.rs), the usage builder and index       *)
(* (src/src/usage), the node registry (src/src/lookup.rs), the parser      *)
(* (src/src/parser.rs) and the document facade (src/src/document).         *)
(*                                                                         *)
(* Two specifications:                                                     *)
(*   SpecText  the text store alone, driven as its unit tests drive it:    *)
(*             new(block_size, cache_capacity), add_string*, build,        *)
(*             get_string*.                                                *)
(*   Spec      parse of a token stream, then the queries on the document.  *)
(* Rust vectors are 0-indexed, TLA+ sequences 1-indexed: element k of a    *)
(* vector v is v[k + 1] throughout.                                        *)
(***************************************************************************)
EXTENDS Integers, Sequences, FiniteSets, TLC

VARIABLES
    pc,            \* position of the driver: see TextInit and Init
    text_builder,  \* TextUsageBuilder
    text_usage,    \* TextUsage (after build)
    added,         \* history: the strings passed to add_string, in call order
    returned,      \* history: the TextId each add_string call returned
    access_order,  \* history: the blocks get_string touched, least recently touched first
    last_get,      \* history: the last get_string call and what it returned
    stack,         \* Parser: the parse_item calls in progress, outermost first
    builder,       \* Parser: Builder {tree_builder, text_builder, numbers, booleans}
    consumed,      \* history: the events the tokenizer delivered, in order
    consumed_at,   \* history: for each event, its position in the parentheses and its depth
    document,      \* the Document parse returned
    query,         \* the last query on the document and its result
    reader,        \* Parser: the error a reader call returned, and whether the source holds data after its first value
    locals,        \* Parser::parse: the structure and text_usage it built, and the order it built them in
    lookup,        \* a NodeLookup driven directly
    registered,    \* history: the register and open_field calls on lookup and what they returned
    roaring,       \* a RoaringUsageBuilder driven directly
    bitpacking,    \* a BitpackingUsageBuilder given the same append calls
    appended       \* history: the kind ids passed to append, in call order

text_vars == <<text_builder, text_usage, added, returned, access_order, last_get>>

finish_vars == <<reader, locals>>

parse_vars == <<stack, builder, consumed, consumed_at, document, query, finish_vars>>

lookup_vars == <<lookup, registered>>

usage_vars == <<roaring, bitpacking, appended>>

vars == <<pc, text_vars, parse_vars, lookup_vars, usage_vars>>

(***************************************************************************)
(* Bounds of the model.                                                    *)
(***************************************************************************)
MaxAdds == 3
MaxBlockSize == 2
MaxCache == 2

\* the most nodes (opening parentheses) of a parsed document
MaxNodes == 5

\* the most queries made on a parsed document
MaxQueries == 1

\* The strings handed to add_string: every length from 0 to 2, the
\* sentinel's own byte value included.
InputStrings == {<<>>, <<97>>, <<97, 0>>}

(***************************************************************************)
(* Helpers on sequences.                                                   *)
(***************************************************************************)
Min(a, b) == IF a <= b THEN a ELSE b

Max(a, b) == IF a >= b THEN a ELSE b

Range(s) == {s[i] : i \in 1..Len(s)}

\* s[from..to) with 0-based bounds, as a Rust slice &s[from..to]
Slice(s, from, to) == SubSeq(s, from + 1, to)

(***************************************************************************)
(* vers_vecs::SparseRSVec: a set of positions below len, by its sorted     *)
(* list of positions.                                                      *)
(***************************************************************************)
SparseRSVec_new(positions, len) == [ones |-> positions, len |-> len]

iter1(v) == v.ones

\* None ("none") at or beyond len, else whether the bit is set
is_set(v, i) ==
    IF i >= v.len THEN "none"
    ELSE IF \E k \in 1..Len(v.ones) : v.ones[k] = i THEN "true" ELSE "false"

\* the number of set positions strictly below i
rank1(v, i) == Cardinality({k \in 1..Len(v.ones) : v.ones[k] < i})

\* the position of the rank-th set bit (0-indexed), len when there is none
select1(v, rank) == IF rank < Len(v.ones) THEN v.ones[rank + 1] ELSE v.len

(***************************************************************************)
(* flate2 DeflateEncoder / DeflateDecoder, modelled as a run-length coder: *)
(* a lossless byte-stream coder whose output differs from its input.       *)
(***************************************************************************)
RunLen(data) ==
    LET same == {n \in 1..Len(data) : \A i \in 1..n : data[i] = data[1]}
    IN  CHOOSE n \in same : \A m \in same : m <= n

RECURSIVE deflate_encode(_)
deflate_encode(data) ==
    IF data = <<>> THEN <<>>
    ELSE LET n == RunLen(data)
         IN  <<[byte |-> data[1], run |-> n]>> \o deflate_encode(SubSeq(data, n + 1, Len(data)))

RECURSIVE deflate_decode(_)
deflate_decode(code) ==
    IF code = <<>> THEN <<>>
    ELSE [i \in 1..code[1].run |-> code[1].byte] \o deflate_decode(Tail(code))

(***************************************************************************)
(* Block                                                                   *)
(***************************************************************************)
Block_compress(start_text_id, starts, data) ==
    [compressed_data |-> deflate_encode(data),
     original_size   |-> Len(data),
     start_text_id   |-> start_text_id,
     starts          |-> SparseRSVec_new(starts, Len(data))]

Block_decompress(block) == deflate_decode(block.compressed_data)

\* block_slices ending each string one byte too early
block_slices_dropping_sentinel_twice(block) ==
    LET block_data == Block_decompress(block)
        starts == iter1(block.starts)
    IN  [i \in 1..Len(starts) |->
            LET start == starts[i]
                next_start == IF i < Len(starts) THEN starts[i + 1] ELSE block.original_size
            IN  Slice(block_data, start, Max(start, next_start - 2))]

\* the strings of a block: the bytes from each start up to (not including)
\* the sentinel before the next start, or before original_size for the last
block_slices(block) ==
    LET block_data == Block_decompress(block)
        starts == iter1(block.starts)
    IN  [i \in 1..Len(starts) |->
            LET start == starts[i]
                next_start == IF i < Len(starts) THEN starts[i + 1] ELSE block.original_size
            IN  Slice(block_data, start, next_start - 1)]

(***************************************************************************)
(* TextUsageBuilder                                                        *)
(***************************************************************************)
TextUsageBuilder_new(block_size, cache_capacity) ==
    [block_size           |-> block_size,
     cache_capacity       |-> cache_capacity,
     blocks               |-> <<>>,
     texts                |-> <<>>,
     current_block_buffer |-> <<>>,
     current_block_starts |-> <<>>]

\* a finalize_current_block that takes the block id for the first TextId of
\* the block
finalize_current_block_starting_at_block_id(b) ==
    IF b.current_block_starts = <<>> THEN b
    ELSE LET block_id == Len(b.blocks)
         IN  [b EXCEPT
                !.texts = b.texts \o [i \in 1..Len(b.current_block_starts) |-> block_id],
                !.blocks = Append(b.blocks,
                    Block_compress(block_id, b.current_block_starts, b.current_block_buffer)),
                !.current_block_buffer = <<>>,
                !.current_block_starts = <<>>]

finalize_current_block(b) ==
    IF b.current_block_starts = <<>> THEN b
    ELSE LET block_id == Len(b.blocks)
             start_text_id == Len(b.texts)
         IN  [b EXCEPT
                !.texts = b.texts \o [i \in 1..Len(b.current_block_starts) |-> block_id],
                !.blocks = Append(b.blocks,
                    Block_compress(start_text_id, b.current_block_starts, b.current_block_buffer)),
                !.current_block_buffer = <<>>,
                !.current_block_starts = <<>>]

\* the TextId add_string returns
add_string_id(b) == Len(b.texts) + Len(b.current_block_starts)

\* an add_string that leaves the sentinels out of the buffer length it
\* compares with block_size
add_string_not_counting_sentinels(b, text) ==
    LET b1 == IF Len(b.current_block_buffer) - Len(b.current_block_starts) + Len(text)
                     > b.block_size
                 /\ b.current_block_buffer # <<>>
              THEN finalize_current_block(b)
              ELSE b
        start == Len(b1.current_block_buffer)
    IN  [b1 EXCEPT
           !.current_block_buffer = (b1.current_block_buffer \o text) \o <<0>>,
           !.current_block_starts = Append(b1.current_block_starts, start)]

\* an add_string that already finalizes when the block is exactly full
add_string_finalizing_at_block_size(b, text) ==
    LET b1 == IF Len(b.current_block_buffer) + Len(text) >= b.block_size
                 /\ b.current_block_buffer # <<>>
              THEN finalize_current_block(b)
              ELSE b
        start == Len(b1.current_block_buffer)
    IN  [b1 EXCEPT
           !.current_block_buffer = (b1.current_block_buffer \o text) \o <<0>>,
           !.current_block_starts = Append(b1.current_block_starts, start)]

\* an add_string that compares the buffer alone with block_size
add_string_ignoring_text_length(b, text) ==
    LET b1 == IF Len(b.current_block_buffer) > b.block_size
                 /\ b.current_block_buffer # <<>>
              THEN finalize_current_block(b)
              ELSE b
        start == Len(b1.current_block_buffer)
    IN  [b1 EXCEPT
           !.current_block_buffer = (b1.current_block_buffer \o text) \o <<0>>,
           !.current_block_starts = Append(b1.current_block_starts, start)]

\* an add_string that never closes the current block for an empty string
add_string_grouping_empty_strings(b, text) ==
    LET b1 == IF Len(b.current_block_buffer) + Len(text) > b.block_size
                 /\ b.current_block_buffer # <<>>
                 /\ text # <<>>
              THEN finalize_current_block(b)
              ELSE b
        start == Len(b1.current_block_buffer)
    IN  [b1 EXCEPT
           !.current_block_buffer = (b1.current_block_buffer \o text) \o <<0>>,
           !.current_block_starts = Append(b1.current_block_starts, start)]

\* the builder after add_string(text)
add_string(b, text) ==
    LET b1 == IF Len(b.current_block_buffer) + Len(text) > b.block_size
                 /\ b.current_block_buffer # <<>>
              THEN finalize_current_block(b)
              ELSE b
        start == Len(b1.current_block_buffer)
    IN  [b1 EXCEPT
           !.current_block_buffer = (b1.current_block_buffer \o text) \o <<0>>,
           !.current_block_starts = Append(b1.current_block_starts, start)]

(***************************************************************************)
(* lru::LruCache: the entries from least to most recently used.            *)
(***************************************************************************)
LruCache_new(capacity) == [cap |-> capacity, entries |-> <<>>]

LruCache_len(cache) == Len(cache.entries)

LruCache_contains(cache, key) == \E i \in 1..Len(cache.entries) : cache.entries[i].key = key

LruCache_without(cache, key) ==
    SelectSeq(cache.entries, LAMBDA e : e.key # key)

LruCache_value(cache, key) ==
    LET i == CHOOSE j \in 1..Len(cache.entries) : cache.entries[j].key = key
    IN  cache.entries[i].val

\* a get that leaves the order of use as it is
LruCache_get_without_promotion(cache, key) == cache

\* get: a hit makes the entry the most recently used
LruCache_get(cache, key) ==
    IF LruCache_contains(cache, key)
    THEN [cache EXCEPT !.entries =
            Append(LruCache_without(cache, key), [key |-> key, val |-> LruCache_value(cache, key)])]
    ELSE cache

\* a put that never evicts
LruCache_put_never_evicting(cache, key, val) ==
    [cache EXCEPT !.entries = Append(LruCache_without(cache, key), [key |-> key, val |-> val])]

\* put: a key already held is replaced and made the most recently used;
\* a new key evicts the least recently used entry when len() == cap()
LruCache_put(cache, key, val) ==
    LET rest == LruCache_without(cache, key)
        kept == IF Len(rest) = cache.cap THEN Tail(rest) ELSE rest
    IN  [cache EXCEPT !.entries = Append(kept, [key |-> key, val |-> val])]

(***************************************************************************)
(* TextUsage                                                               *)
(***************************************************************************)
\* cache: RefCell<LruCache<..>>: the cache is held in a RefCell, the cell of
\* one thread with a run-time borrow check; it makes TextUsage !Sync
TextUsage_new(cache_capacity, blocks, text_infos) ==
    [blocks         |-> blocks,
     texts          |-> text_infos,
     cache          |-> LruCache_new(Max(cache_capacity, 1)),
     cache_guard    |-> "RefCell",
     cache_capacity |-> cache_capacity]

build(b) ==
    LET b1 == finalize_current_block(b)
    IN  TextUsage_new(b1.cache_capacity, b1.blocks, b1.texts)

\* a get_string that keeps the block it decompressed in place of the
\* compressed one
get_string_keeping_block_decompressed(tu, text_id) ==
    LET block_id == tu.texts[text_id + 1]
        block == tu.blocks[block_id + 1]
        block_data == Block_decompress(block)
        offset == text_id - block.start_text_id
    IN  [tu           |-> [tu EXCEPT !.blocks[block_id + 1].compressed_data =
                              [i \in 1..Len(block_data) |-> [byte |-> block_data[i], run |-> 1]]],
         ret          |-> block_slices(block)[offset + 1],
         block_id     |-> block_id,
         decompressed |-> TRUE]

\* get_string(text_id) on a TextId of the store: the store afterwards (only
\* its cache changes), the string returned, and whether the block was
\* decompressed by this call
get_string(tu, text_id) ==
    LET block_id == tu.texts[text_id + 1]
        block == tu.blocks[block_id + 1]
        hit == tu.cache_capacity > 0 /\ LruCache_contains(tu.cache, block_id)
        block_slices_ == IF hit THEN LruCache_value(tu.cache, block_id) ELSE block_slices(block)
        cache == IF tu.cache_capacity > 0
                 THEN IF hit THEN LruCache_get(tu.cache, block_id)
                      ELSE LruCache_put(tu.cache, block_id, block_slices_)
                 ELSE tu.cache
        offset == text_id - block.start_text_id
    IN  [tu           |-> [tu EXCEPT !.cache = cache],
         ret          |-> block_slices_[offset + 1],
         block_id     |-> block_id,
         decompressed |-> ~hit]

NoTextUsage == TextUsage_new(0, <<>>, <<>>)

\* stats().cache_size
stats_cache_size(tu) == IF tu.cache_capacity = 0 THEN 0 ELSE LruCache_len(tu.cache)

\* stats().total_blocks
stats_total_blocks(tu) == Len(tu.blocks)

RECURSIVE SumSeq(_)
SumSeq(sizes) == IF sizes = <<>> THEN 0 ELSE Head(sizes) + SumSeq(Tail(sizes))

\* size_of::<BlockId>(), size_of::<f64>() and size_of::<u64>()
WORD_BYTES == 8

\* SparseRSVec::heap_size: grows with the positions stored
SparseRSVec_heap_size(v) == WORD_BYTES * Len(v.ones)

\* BitVec::heap_size and BpTree::heap_size: whole words of bits
BitVec_heap_size(bits) == WORD_BYTES * ((Len(bits) + 63) \div 64)

Block_heap_size(block) == Len(block.compressed_data) + SparseRSVec_heap_size(block.starts)

\* TextUsage::heap_size: the blocks and the table, not the cache
TextUsage_heap_size(tu) ==
    SumSeq([k \in 1..Len(tu.blocks) |-> Block_heap_size(tu.blocks[k])])
        + Len(tu.texts) * WORD_BYTES

(***************************************************************************)
(* NodeInfo and the node registry (info.rs, lookup.rs).                    *)
(***************************************************************************)
OBJECT_OPEN_ID == 0
OBJECT_CLOSE_ID == 1
ARRAY_OPEN_ID == 2
ARRAY_CLOSE_ID == 3
STRING_OPEN_ID == 4
STRING_CLOSE_ID == 5
NUMBER_OPEN_ID == 6
NUMBER_CLOSE_ID == 7
BOOLEAN_OPEN_ID == 8
BOOLEAN_CLOSE_ID == 9
NULL_OPEN_ID == 10
NULL_CLOSE_ID == 11

\* NodeType: the six value types carry no name, Field carries its name
NodeType(kind) == [kind |-> kind, name |-> <<>>]

NodeType_Field(name) == [kind |-> "Field", name |-> name]

NodeInfo_open(node_type) == [node_type |-> node_type, is_open_tag |-> TRUE]

NodeInfo_close(node_type) == [node_type |-> node_type, is_open_tag |-> FALSE]

\* Option<usize>::None
None == -1

\* the outcome of a call that panics (expect or unwrap of a None,
\* unreachable!()): no value of the call's type
Panics == None - 1

\* the hash map node_info_lookup, as the list of its (NodeInfo, id) entries
HashMap_get(map, node_info) ==
    IF \E i \in 1..Len(map) : map[i].key = node_info
    THEN map[CHOOSE i \in 1..Len(map) : map[i].key = node_info].val
    ELSE None

\* a register_lookup that never consults the map
register_lookup_always_pushing(nl, node_info) ==
    [nl |-> [node_infos |-> Append(nl.node_infos, node_info),
             node_info_lookup |->
                 Append(nl.node_info_lookup, [key |-> node_info, val |-> Len(nl.node_infos)])],
     id |-> Len(nl.node_infos)]

register_lookup(nl, node_info) ==
    IF HashMap_get(nl.node_info_lookup, node_info) # None
    THEN [nl |-> nl, id |-> HashMap_get(nl.node_info_lookup, node_info)]
    ELSE LET idx == Len(nl.node_infos)
         IN  [nl |-> [node_infos |-> Append(nl.node_infos, node_info),
                      node_info_lookup |->
                          Append(nl.node_info_lookup, [key |-> node_info, val |-> idx])],
              id |-> idx]

RECURSIVE register_all(_, _)
register_all(nl, node_infos) ==
    IF node_infos = <<>> THEN nl
    ELSE register_all(register_lookup(nl, Head(node_infos)).nl, Tail(node_infos))

\* a NodeLookup::new that registers every close kind before its open kind
NodeLookup_new_close_before_open ==
    register_all([node_infos |-> <<>>, node_info_lookup |-> <<>>],
        <<NodeInfo_close(NodeType("Object")),  NodeInfo_open(NodeType("Object")),
          NodeInfo_close(NodeType("Array")),   NodeInfo_open(NodeType("Array")),
          NodeInfo_close(NodeType("String")),  NodeInfo_open(NodeType("String")),
          NodeInfo_close(NodeType("Number")),  NodeInfo_open(NodeType("Number")),
          NodeInfo_close(NodeType("Boolean")), NodeInfo_open(NodeType("Boolean")),
          NodeInfo_close(NodeType("Null")),    NodeInfo_open(NodeType("Null"))>>)

NodeLookup_new ==
    register_all([node_infos |-> <<>>, node_info_lookup |-> <<>>],
        <<NodeInfo_open(NodeType("Object")),  NodeInfo_close(NodeType("Object")),
          NodeInfo_open(NodeType("Array")),   NodeInfo_close(NodeType("Array")),
          NodeInfo_open(NodeType("String")),  NodeInfo_close(NodeType("String")),
          NodeInfo_open(NodeType("Number")),  NodeInfo_close(NodeType("Number")),
          NodeInfo_open(NodeType("Boolean")), NodeInfo_close(NodeType("Boolean")),
          NodeInfo_open(NodeType("Null")),    NodeInfo_close(NodeType("Null"))>>)

register_fast_path(node_info) ==
    LET open == node_info.is_open_tag
        kind == node_info.node_type.kind
    IN  CASE kind = "Object"  -> IF open THEN OBJECT_OPEN_ID ELSE OBJECT_CLOSE_ID
          [] kind = "Array"   -> IF open THEN ARRAY_OPEN_ID ELSE ARRAY_CLOSE_ID
          [] kind = "String"  -> IF open THEN STRING_OPEN_ID ELSE STRING_CLOSE_ID
          [] kind = "Number"  -> IF open THEN NUMBER_OPEN_ID ELSE NUMBER_CLOSE_ID
          [] kind = "Boolean" -> IF open THEN BOOLEAN_OPEN_ID ELSE BOOLEAN_CLOSE_ID
          [] kind = "Null"    -> IF open THEN NULL_OPEN_ID ELSE NULL_CLOSE_ID
          [] OTHER            -> None

register(nl, node_info) ==
    IF register_fast_path(node_info) # None
    THEN [nl |-> nl, id |-> register_fast_path(node_info)]
    ELSE register_lookup(nl, node_info)

\* registers the open and the close kind of a field, in that order
register_field_ids(nl, name) ==
    LET o == register_lookup(nl, NodeInfo_open(NodeType_Field(name)))
        c == register_lookup(o.nl, NodeInfo_close(NodeType_Field(name)))
    IN  [nl |-> c.nl, open_id |-> o.id, close_id |-> c.id]

by_node_info_id(nl, node_info_id) == nl.node_infos[node_info_id + 1]

(***************************************************************************)
(* RoaringUsageBuilder and the UsageBuilder trait's provided methods.      *)
(* usage[k + 1] is the bitmap of kind k, by its ascending positions.       *)
(***************************************************************************)
UsageBuilder_new == [usage |-> <<>>, node_lookup |-> NodeLookup_new, len |-> 0]

\* Vec::resize(n, RoaringBitmap::new()) when the vector is shorter than n
resize(usage, n) ==
    IF Len(usage) >= n THEN usage
    ELSE usage \o [k \in 1..(n - Len(usage)) |-> <<>>]

\* RoaringBitmap::push: appends only a value above the current maximum
RoaringBitmap_push(bm, value) ==
    IF bm = <<>> \/ bm[Len(bm)] < value THEN Append(bm, value) ELSE bm

\* an append that does not advance len
UsageBuilder_append_keeping_len(ub, node_info_id) ==
    LET usage == resize(ub.usage, node_info_id + 1)
    IN  [ub EXCEPT !.usage = [usage EXCEPT ![node_info_id + 1] = RoaringBitmap_push(@, ub.len)]]

UsageBuilder_append(ub, node_info_id) ==
    LET usage == resize(ub.usage, node_info_id + 1)
    IN  [ub EXCEPT
           !.usage = [usage EXCEPT ![node_info_id + 1] = RoaringBitmap_push(@, ub.len)],
           !.len = ub.len + 1]

UsageBuilder_open(ub, node_type) ==
    LET r == register(ub.node_lookup, NodeInfo_open(node_type))
    IN  UsageBuilder_append([ub EXCEPT !.node_lookup = r.nl], r.id)

\* a close that registers the Open kind
UsageBuilder_close_registering_open(ub, node_type) ==
    LET r == register(ub.node_lookup, NodeInfo_open(node_type))
    IN  UsageBuilder_append([ub EXCEPT !.node_lookup = r.nl], r.id)

UsageBuilder_close(ub, node_type) ==
    LET r == register(ub.node_lookup, NodeInfo_close(node_type))
    IN  UsageBuilder_append([ub EXCEPT !.node_lookup = r.nl], r.id)

\* the builder afterwards and the id to close the field with
UsageBuilder_open_field(ub, name) ==
    LET r == register_field_ids(ub.node_lookup, name)
    IN  [ub |-> UsageBuilder_append([ub EXCEPT !.node_lookup = r.nl], r.open_id),
         close_field_id |-> r.close_id]

UsageBuilder_close_field(ub, close_field_id) == UsageBuilder_append(ub, close_field_id)

EliasFanoUsageIndex_new(sparse_rs_vecs, node_lookup, len) ==
    [sparse_rs_vecs |-> sparse_rs_vecs, node_lookup |-> node_lookup, len |-> len]

UsageBuilder_build(ub) ==
    EliasFanoUsageIndex_new(
        [k \in 1..Len(ub.usage) |-> SparseRSVec_new(ub.usage[k], ub.len)],
        ub.node_lookup, ub.len)

(***************************************************************************)
(* BitpackingUsageBuilder. BitPacker4x packs blocks of BLOCK_LEN strictly  *)
(* sorted values as their deltas minus one, each in num_bits bits; the     *)
(* compressed vector is modelled in words of num_bits bits. The crate's    *)
(* BLOCK_LEN is 128; the model packs shorter blocks.                       *)
(***************************************************************************)
BLOCK_LEN == 2

\* the value before the first of a block: u32::MAX (wrapping) for None
Before(initial_value) == IF initial_value = None THEN -1 ELSE initial_value

Deltas(initial_value, values) ==
    [k \in 1..Len(values) |->
        values[k] - (IF k = 1 THEN Before(initial_value) ELSE values[k - 1]) - 1]

\* the bits the largest delta needs (positions of the model stay below 2^30)
num_bits_strictly_sorted(initial_value, values) ==
    CHOOSE n \in 0..30 :
        /\ \A k \in 1..Len(values) : Deltas(initial_value, values)[k] < 2^n
        /\ n > 0 => \E k \in 1..Len(values) : Deltas(initial_value, values)[k] >= 2^(n - 1)

\* the packed words: one per value, none at all when num_bits is 0
compress_strictly_sorted(initial_value, values, num_bits) ==
    IF num_bits = 0 THEN <<>>
    ELSE [k \in 1..Len(values) |-> Deltas(initial_value, values)[k] % (2^num_bits)]

decompress_strictly_sorted(initial_value, compressed, num_bits) ==
    LET deltas == IF num_bits = 0 THEN [k \in 1..BLOCK_LEN |-> 0] ELSE compressed
    IN  [k \in 1..BLOCK_LEN |-> Before(initial_value) + SumSeq(SubSeq(deltas, 1, k)) + k]

BlockInfo(initial_value, num_bits, compressed_start, compressed_len) ==
    [initial_value |-> initial_value, num_bits |-> num_bits,
     compressed_start |-> compressed_start, compressed_len |-> compressed_len]

Packed_new ==
    [compressed |-> <<>>, remainder |-> <<>>, block_infos |-> <<>>, used |-> 0,
     initial_value |-> None]

\* compressed.resize(n, 0) followed by writing words from compressed_start
Packed_write(compressed, compressed_start, words, n) ==
    [k \in 1..n |->
        IF k > compressed_start /\ k <= compressed_start + Len(words)
        THEN words[k - compressed_start]
        ELSE IF k <= Len(compressed) THEN compressed[k] ELSE 0]

\* a pack step that records the next block's initial value in the block info
Packed_pack_recording_next_initial_value(p, remainder, num_bits, words) ==
    [compressed    |-> Packed_write(p.compressed, p.used, words, p.used + BLOCK_LEN),
     remainder     |-> <<>>,
     block_infos   |-> Append(p.block_infos,
                          BlockInfo(remainder[Len(remainder)], num_bits, p.used, Len(words))),
     used          |-> p.used + Len(words),
     initial_value |-> remainder[Len(remainder)]]

\* the block of a full remainder, packed with num_bits bits
Packed_pack(p, remainder, num_bits, words) ==
    [compressed    |-> Packed_write(p.compressed, p.used, words, p.used + BLOCK_LEN),
     remainder     |-> <<>>,
     block_infos   |-> Append(p.block_infos,
                          BlockInfo(p.initial_value, num_bits, p.used, Len(words))),
     used          |-> p.used + Len(words),
     initial_value |-> remainder[Len(remainder)]]

Packed_pack_remainder(p, remainder, num_bits) ==
    Packed_pack(p, remainder, num_bits,
        compress_strictly_sorted(p.initial_value, remainder, num_bits))

Packed_append(p, value) ==
    IF Len(p.remainder) + 1 < BLOCK_LEN
    THEN [p EXCEPT !.remainder = Append(p.remainder, value)]
    ELSE Packed_pack_remainder(p, Append(p.remainder, value),
             num_bits_strictly_sorted(p.initial_value, Append(p.remainder, value)))

Packed_decompress_block(p, block_info) ==
    decompress_strictly_sorted(block_info.initial_value,
        SubSeq(p.compressed, block_info.compressed_start + 1,
               block_info.compressed_start + block_info.compressed_len),
        block_info.num_bits)

RECURSIVE Packed_decompressed_blocks(_, _)
Packed_decompressed_blocks(p, n) ==
    IF n = 0 THEN <<>>
    ELSE Packed_decompressed_blocks(p, n - 1) \o Packed_decompress_block(p, p.block_infos[n])

\* a decompressed that leaves out the values not yet packed
Packed_decompressed_without_remainder(p) == Packed_decompressed_blocks(p, Len(p.block_infos))

Packed_decompressed(p) == Packed_decompressed_blocks(p, Len(p.block_infos)) \o p.remainder

BitpackingUsageBuilder_new == [usage |-> <<>>, node_lookup |-> NodeLookup_new, len |-> 0]

\* Vec::resize(n, Packed::new()) when the vector is shorter than n
Packed_resize(usage, n) ==
    IF Len(usage) >= n THEN usage
    ELSE usage \o [k \in 1..(n - Len(usage)) |-> Packed_new]

BitpackingUsageBuilder_appended(ub, usage, node_info_id) ==
    [ub EXCEPT
       !.usage = [usage EXCEPT ![node_info_id + 1] = Packed_append(@, ub.len)],
       !.len = ub.len + 1]

BitpackingUsageBuilder_append(ub, node_info_id) ==
    BitpackingUsageBuilder_appended(ub, Packed_resize(ub.usage, node_info_id + 1), node_info_id)

BitpackingUsageBuilder_build(ub) ==
    EliasFanoUsageIndex_new(
        [k \in 1..Len(ub.usage) |-> SparseRSVec_new(Packed_decompressed(ub.usage[k]), ub.len)],
        ub.node_lookup, ub.len)

(***************************************************************************)
(* EliasFanoUsageIndex                                                     *)
(***************************************************************************)
\* the first kind whose bit-vector has position i set, None when there is none
UsageIndex_node_info_id(ix, i) ==
    LET hits == {k \in 1..Len(ix.sparse_rs_vecs) : is_set(ix.sparse_rs_vecs[k], i) = "true"}
    IN  IF hits = {} THEN None
        ELSE (CHOOSE k \in hits : \A m \in hits : k <= m) - 1

\* a rank that also counts position i itself
UsageIndex_rank_counting_through_i(ix, i, id) ==
    IF i <= ix.len THEN rank1(ix.sparse_rs_vecs[id + 1], i + 1) ELSE None

UsageIndex_rank(ix, i, id) == IF i <= ix.len THEN rank1(ix.sparse_rs_vecs[id + 1], i) ELSE None

\* a select that counts occurrences from one
UsageIndex_select_one_indexed(ix, r, id) ==
    LET s == select1(ix.sparse_rs_vecs[id + 1], r + 1)
    IN  IF ix.len # s THEN s ELSE None

UsageIndex_select(ix, r, id) ==
    LET s == select1(ix.sparse_rs_vecs[id + 1], r)
    IN  IF ix.len # s THEN s ELSE None

\* self.sparse_rs_vecs[id] panics (index out of bounds) when the index holds
\* no vector for the kind: the one way rank, select, text_id, number_id and
\* boolean_id abort
UsageIndex_aborts(ix, id) == Len(ix.sparse_rs_vecs) <= id

UsageIndex_text_id(ix, i) == IF i <= ix.len THEN rank1(ix.sparse_rs_vecs[STRING_OPEN_ID + 1], i) ELSE None

UsageIndex_number_id(ix, i) == IF i <= ix.len THEN rank1(ix.sparse_rs_vecs[NUMBER_OPEN_ID + 1], i) ELSE None

UsageIndex_boolean_id(ix, i) == IF i <= ix.len THEN rank1(ix.sparse_rs_vecs[BOOLEAN_OPEN_ID + 1], i) ELSE None

(***************************************************************************)
(* TreeBuilder: the usage builder and the parentheses bit-vector.          *)
(***************************************************************************)
TreeBuilder_new == [usage_builder |-> UsageBuilder_new, parentheses |-> <<>>]

TreeBuilder_open(tb, node_type) ==
    [usage_builder |-> UsageBuilder_open(tb.usage_builder, node_type),
     parentheses   |-> Append(tb.parentheses, TRUE)]

\* a close that pushes an open parenthesis
TreeBuilder_close_appending_open_bit(tb, node_type) ==
    [usage_builder |-> UsageBuilder_close(tb.usage_builder, node_type),
     parentheses   |-> Append(tb.parentheses, TRUE)]

TreeBuilder_close(tb, node_type) ==
    [usage_builder |-> UsageBuilder_close(tb.usage_builder, node_type),
     parentheses   |-> Append(tb.parentheses, FALSE)]

TreeBuilder_open_field(tb, name) ==
    LET r == UsageBuilder_open_field(tb.usage_builder, name)
    IN  [tb |-> [usage_builder |-> r.ub, parentheses |-> Append(tb.parentheses, TRUE)],
         close_field_id |-> r.close_field_id]

TreeBuilder_close_field(tb, close_field_id) ==
    [usage_builder |-> UsageBuilder_close_field(tb.usage_builder, close_field_id),
     parentheses   |-> Append(tb.parentheses, FALSE)]

(***************************************************************************)
(* vers_vecs::BpTree over the parentheses (TRUE = open).                   *)
(***************************************************************************)
BpTree_from_bit_vector(parentheses) == parentheses

\* opens minus closes in positions from..to (0-based, inclusive)
Excess(tree, from, to) ==
    Cardinality({k \in from..to : tree[k + 1]}) - Cardinality({k \in from..to : ~tree[k + 1]})

\* the close matching the open at i, None when there is none
find_close(tree, i) ==
    LET closes == {j \in (i + 1)..(Len(tree) - 1) : Excess(tree, i, j) = 0}
    IN  IF closes = {} THEN None ELSE CHOOSE j \in closes : \A m \in closes : j <= m

BpTree_root(tree) == IF tree = <<>> THEN None ELSE 0

\* a first_child that does not look whether the next parenthesis opens
first_child_of_a_leaf(tree, i) == IF i + 1 < Len(tree) THEN i + 1 ELSE None

first_child(tree, i) == IF i + 1 < Len(tree) /\ tree[i + 2] THEN i + 1 ELSE None

next_sibling(tree, i) ==
    LET c == find_close(tree, i)
    IN  IF c # None /\ c + 1 < Len(tree) /\ tree[c + 2] THEN c + 1 ELSE None

(***************************************************************************)
(* Structure: the usage index and the tree.                                *)
(***************************************************************************)
Structure_new(tb) ==
    [usage_index |-> UsageBuilder_build(tb.usage_builder),
     tree        |-> BpTree_from_bit_vector(tb.parentheses)]

NoStructure == Structure_new(TreeBuilder_new)

\* node_info_id(i).expect("Node information to exist"): panics on a
\* position that holds no kind
Structure_node_info_id(st, i) ==
    IF UsageIndex_node_info_id(st.usage_index, i) = None THEN Panics
    ELSE UsageIndex_node_info_id(st.usage_index, i)

\* what node_info gives when node_info_id panics: no NodeInfo
NodeInfo_panics == [node_type |-> NodeType("Panics"), is_open_tag |-> FALSE]

Structure_node_info(st, i) ==
    IF Structure_node_info_id(st, i) = Panics THEN NodeInfo_panics
    ELSE by_node_info_id(st.usage_index.node_lookup, Structure_node_info_id(st, i))

\* NodeLookup::heap_size: the registered infos with the bytes of their names
NodeLookup_heap_size(nl) ==
    SumSeq([k \in 1..Len(nl.node_infos) |-> WORD_BYTES + Len(nl.node_infos[k].node_type.name)])

UsageIndex_heap_size(ix) ==
    SumSeq([k \in 1..Len(ix.sparse_rs_vecs) |-> SparseRSVec_heap_size(ix.sparse_rs_vecs[k])])

Structure_heap_size(st) ==
    BitVec_heap_size(st.tree) + NodeLookup_heap_size(st.usage_index.node_lookup)
        + UsageIndex_heap_size(st.usage_index)

(***************************************************************************)
(* f64 and the number conversion of next_number::<f64> (f64::from_str on   *)
(* the token's text). A token is its text; an f64 is written f64(...) with *)
(* its shortest round-trip decimal form, f64(inf) for positive infinity.   *)
(***************************************************************************)
NumberTokens == {"1", "1.0", "1e999"}

\* f64::from_str: 1 and 1.0 are the same double, 1e999 overflows to infinity
ParseFloat(token) ==
    CASE token = "1"     -> "f64(1)"
      [] token = "1.0"   -> "f64(1)"
      [] token = "1e999" -> "f64(inf)"

\* f64::from_str returns Ok for every token of the JSON number grammar
from_str_ok(token) == token \in NumberTokens

is_finite(x) == x # "f64(inf)"

\* the text fp_number_value writes for a finite f64 (its Display form)
FormatFloat(x) ==
    CASE x = "f64(1)" -> "1"
      [] x = "f64(0)" -> "0"

(***************************************************************************)
(* Events of the tokenizer (struson JsonReader) and of the emitter         *)
(* (struson JsonWriter).                                                   *)
(***************************************************************************)
Event(ev) == [ev |-> ev, str |-> <<>>, num |-> "f64(0)", bool |-> FALSE]

NameEvent(name) == [Event("name") EXCEPT !.str = name]

StringEvent(str) == [Event("string") EXCEPT !.str = str]

NumberEvent(num) == [Event("number") EXCEPT !.num = num]

BoolEvent(bool) == [Event("bool") EXCEPT !.bool = bool]

\* JsonStreamWriter: what was written and whether the writer is still usable
JsonStreamWriter_new == [out |-> <<>>, status |-> "ok"]

Writer_emit(w, event) == [w EXCEPT !.out = Append(w.out, event)]

\* fp_number_value: Err(InvalidNumber) for a non-finite number, which
\* Value::serialize answers with unreachable!()
Writer_fp_number_value(w, n) ==
    IF is_finite(n) THEN Writer_emit(w, NumberEvent(ParseFloat(FormatFloat(n))))
    ELSE [w EXCEPT !.status = "panic"]

(***************************************************************************)
(* Document                                                                *)
(***************************************************************************)
Document_new(structure, text_usage_, numbers, booleans) ==
    [structure |-> structure, text_usage |-> text_usage_,
     numbers |-> numbers, booleans |-> booleans]

NoDocument == Document_new(NoStructure, NoTextUsage, <<>>, <<>>)

Document_heap_size(d) ==
    Structure_heap_size(d.structure) + TextUsage_heap_size(d.text_usage)
        + Len(d.numbers) * WORD_BYTES + BitVec_heap_size(d.booleans)

\* Value: Object and Array carry their node, the others their value
Val(t) == [t |-> t, node |-> None, str |-> <<>>, num |-> "f64(0)", bool |-> FALSE]

\* the Values that stand for a panic: unreachable!(), unwrap() of a None,
\* expect() of a None
Aborted == {"unreachable", "unwrap_none", "panics"}

\* root(): tree().root().expect("Root node does not exist")
Document_root(d) ==
    IF BpTree_root(d.structure.tree) = None THEN Panics ELSE BpTree_root(d.structure.tree)

Document_node_type(d, node) == Structure_node_info(d.structure, node).node_type

string_value(d, node) ==
    LET r == get_string(d.text_usage, UsageIndex_text_id(d.structure.usage_index, node))
    IN  [d |-> [d EXCEPT !.text_usage = r.tu], val |-> r.ret]

number_value(d, node) == d.numbers[UsageIndex_number_id(d.structure.usage_index, node) + 1]

boolean_value(d, node) == d.booleans[UsageIndex_boolean_id(d.structure.usage_index, node) + 1]

\* value(node): the document afterwards (its text cache may change) and the Value
Document_value(d, node) ==
    LET kind == Document_node_type(d, node).kind
    IN  CASE kind = "Object"  -> [d |-> d, val |-> [Val("Object") EXCEPT !.node = node]]
          [] kind = "Array"   -> [d |-> d, val |-> [Val("Array") EXCEPT !.node = node]]
          [] kind = "String"  ->
                LET r == string_value(d, node)
                IN  [d |-> r.d, val |-> [Val("String") EXCEPT !.str = r.val]]
          [] kind = "Number"  ->
                [d |-> d, val |-> [Val("Number") EXCEPT !.num = number_value(d, node)]]
          [] kind = "Boolean" ->
                [d |-> d, val |-> [Val("Boolean") EXCEPT !.bool = boolean_value(d, node)]]
          [] kind = "Null"    -> [d |-> d, val |-> Val("Null")]
          [] kind = "Field"   -> [d |-> d, val |-> Val("unreachable")]
          [] kind = "Panics"  -> [d |-> d, val |-> Val("panics")]

\* root_value(): value(root()), a panic when root() panics
Document_root_value(d) ==
    IF Document_root(d) = Panics THEN [d |-> d, val |-> Val("panics")]
    ELSE Document_value(d, Document_root(d))

(***************************************************************************)
(* The iterators of ObjectValue and ArrayValue. An iterator is the node it *)
(* stands on (None at the end); next gives the document and the iterator   *)
(* afterwards and the item, if any.                                        *)
(***************************************************************************)
ObjectValue_iter(d, node) == first_child(d.structure.tree, node)

ArrayValue_iter(d, node) == first_child(d.structure.tree, node)

\* Some(item) of an iterator's next, with the iterator moved to next_node
Some(d, next_node, item) ==
    [d |-> d, it |-> next_node, some |-> TRUE, panics |-> FALSE, item |-> item]

\* None of an iterator's next
IteratorNone(d, item) ==
    [d |-> d, it |-> None, some |-> FALSE, panics |-> FALSE, item |-> item]

\* an iterator's next that panics: nothing is returned
IteratorPanics(d, item) ==
    [d |-> d, it |-> None, some |-> FALSE, panics |-> TRUE, item |-> item]

\* document.value(value_node) of an Option<Node> that is unwrapped
value_unwrap(d, value_node) ==
    IF value_node = None THEN [d |-> d, val |-> Val("unwrap_none")]
    ELSE Document_value(d, value_node)

\* a node that is not a Field is unreachable!()
FieldKeyIterator_next(d, it) ==
    IF it = None THEN IteratorNone(d, <<>>)
    ELSE IF Document_node_type(d, it).kind # "Field" THEN IteratorPanics(d, <<>>)
    ELSE Some(d, next_sibling(d.structure.tree, it), Document_node_type(d, it).name)

FieldValueIterator_item(v, next_node) ==
    IF v.val.t \in Aborted THEN IteratorPanics(v.d, v.val)
    ELSE Some(v.d, next_node, v.val)

FieldValueIterator_next(d, it) ==
    IF it = None THEN IteratorNone(d, Val("None"))
    ELSE FieldValueIterator_item(value_unwrap(d, first_child(d.structure.tree, it)),
                                 next_sibling(d.structure.tree, it))

NoEntry == [key |-> <<>>, val |-> Val("None")]

FieldEntryIterator_item(node_type, v, next_node) ==
    IF v.val.t \in Aborted THEN IteratorPanics(v.d, [key |-> node_type.name, val |-> v.val])
    ELSE Some(v.d, next_node, [key |-> node_type.name, val |-> v.val])

\* a node that is not a Field is unreachable!(), before its value is taken
FieldEntryIterator_next(d, it) ==
    IF it = None THEN IteratorNone(d, NoEntry)
    ELSE IF Document_node_type(d, it).kind # "Field"
    THEN IteratorPanics(d, [key |-> <<>>, val |-> Val("unreachable")])
    ELSE FieldEntryIterator_item(Document_node_type(d, it),
                                 value_unwrap(d, first_child(d.structure.tree, it)),
                                 next_sibling(d.structure.tree, it))

ArrayIterator_item(v, next_node) ==
    IF v.val.t \in Aborted THEN IteratorPanics(v.d, v.val)
    ELSE Some(v.d, next_node, v.val)

ArrayIterator_next(d, it) ==
    IF it = None THEN IteratorNone(d, Val("None"))
    ELSE ArrayIterator_item(Document_value(d, it), next_sibling(d.structure.tree, it))

\* Iterator::collect: the document afterwards and the items, given the
\* first item n and what the iterator yields after it; a panic of a later
\* next leaves no items
Collected(n, rest) ==
    [d |-> rest.d,
     items |-> IF rest.panics THEN <<>> ELSE <<n.item>> \o rest.items,
     panics |-> rest.panics]

RECURSIVE collect_keys_from(_)
collect_keys_from(n) ==
    IF ~n.some THEN [d |-> n.d, items |-> <<>>, panics |-> n.panics]
    ELSE Collected(n, collect_keys_from(FieldKeyIterator_next(n.d, n.it)))

collect_keys(d, it) == collect_keys_from(FieldKeyIterator_next(d, it))

RECURSIVE collect_values_from(_)
collect_values_from(n) ==
    IF ~n.some THEN [d |-> n.d, items |-> <<>>, panics |-> n.panics]
    ELSE Collected(n, collect_values_from(FieldValueIterator_next(n.d, n.it)))

collect_values(d, it) == collect_values_from(FieldValueIterator_next(d, it))

RECURSIVE collect_entries_from(_)
collect_entries_from(n) ==
    IF ~n.some THEN [d |-> n.d, items |-> <<>>, panics |-> n.panics]
    ELSE Collected(n, collect_entries_from(FieldEntryIterator_next(n.d, n.it)))

collect_entries(d, it) == collect_entries_from(FieldEntryIterator_next(d, it))

RECURSIVE collect_array_from(_)
collect_array_from(n) ==
    IF ~n.some THEN [d |-> n.d, items |-> <<>>, panics |-> n.panics]
    ELSE Collected(n, collect_array_from(ArrayIterator_next(n.d, n.it)))

collect_array(d, it) == collect_array_from(ArrayIterator_next(d, it))

\* Iterator::find on the entries from entry n on: stops at the first entry
\* with the key; a next that panics ends the call without a value
RECURSIVE find_entry(_, _)
find_entry(n, key) ==
    IF n.panics THEN [d |-> n.d, val |-> n.item.val]
    ELSE IF ~n.some THEN [d |-> n.d, val |-> Val("None")]
    ELSE IF n.item.key = key THEN [d |-> n.d, val |-> n.item.val]
    ELSE find_entry(FieldEntryIterator_next(n.d, n.it), key)

LastOf(n, key, later) ==
    IF later.val.t # "None" \/ n.item.key # key THEN later
    ELSE [d |-> later.d, val |-> n.item.val]

RECURSIVE find_last_entry(_, _)
find_last_entry(n, key) ==
    IF n.panics THEN [d |-> n.d, val |-> n.item.val]
    ELSE IF ~n.some THEN [d |-> n.d, val |-> Val("None")]
    ELSE LastOf(n, key, find_last_entry(FieldEntryIterator_next(n.d, n.it), key))

\* a get that returns the last field of the key
ObjectValue_get_last(d, node, key) ==
    find_last_entry(FieldEntryIterator_next(d, ObjectValue_iter(d, node)), key)

ObjectValue_get(d, node, key) ==
    find_entry(FieldEntryIterator_next(d, ObjectValue_iter(d, node)), key)

(***************************************************************************)
(* serialize: the document and the writer afterwards. The nested calls of  *)
(* Value::serialize, ObjectValue::serialize and ArrayValue::serialize are  *)
(* kept as a stack of calls in progress, innermost first: a value still to *)
(* serialize, or the loop of an object or an array at its iterator.        *)
(***************************************************************************)
ValueCall(val) == [k |-> "value", val |-> val, it |-> None]

LoopCall(k, it) == [k |-> k, val |-> Val("None"), it |-> it]

Serializing(d, w, calls) == [d |-> d, w |-> w, calls |-> calls]

Panic(w) == [w EXCEPT !.status = "panic"]

\* the body of `for (key, value) in self.iter()` on entry n, end_object
\* after the last entry
ObjectValue_serialize_field(n, w, calls) ==
    IF n.panics THEN Serializing(n.d, Panic(w), calls)
    ELSE IF ~n.some THEN Serializing(n.d, Writer_emit(w, Event("end_object")), calls)
    ELSE Serializing(n.d, Writer_emit(w, NameEvent(n.item.key)),
                     <<ValueCall(n.item.val), LoopCall("fields", n.it)>> \o calls)

\* ObjectValue::serialize at its loop, with the iterator at it
ObjectValue_serialize_fields(d, it, w, calls) ==
    ObjectValue_serialize_field(FieldEntryIterator_next(d, it), w, calls)

\* the body of `for value in self.iter()` on item n, end_array after the last
ArrayValue_serialize_item(n, w, calls) ==
    IF n.panics THEN Serializing(n.d, Panic(w), calls)
    ELSE IF ~n.some THEN Serializing(n.d, Writer_emit(w, Event("end_array")), calls)
    ELSE Serializing(n.d, w, <<ValueCall(n.item), LoopCall("items", n.it)>> \o calls)

\* ArrayValue::serialize at its loop, with the iterator at it
ArrayValue_serialize_items(d, it, w, calls) ==
    ArrayValue_serialize_item(ArrayIterator_next(d, it), w, calls)

\* Value::serialize up to the loop of ObjectValue::serialize or
\* ArrayValue::serialize
Value_serialize(d, val, w, calls) ==
    CASE val.t = "Object" ->
            Serializing(d, Writer_emit(w, Event("begin_object")),
                        <<LoopCall("fields", ObjectValue_iter(d, val.node))>> \o calls)
      [] val.t = "Array" ->
            Serializing(d, Writer_emit(w, Event("begin_array")),
                        <<LoopCall("items", ArrayValue_iter(d, val.node))>> \o calls)
      [] val.t = "String"  -> Serializing(d, Writer_emit(w, StringEvent(val.str)), calls)
      [] val.t = "Number"  -> Serializing(d, Writer_fp_number_value(w, val.num), calls)
      [] val.t = "Boolean" -> Serializing(d, Writer_emit(w, BoolEvent(val.bool)), calls)
      [] val.t = "Null"    -> Serializing(d, Writer_emit(w, Event("null")), calls)
      [] val.t \in Aborted -> Serializing(d, Panic(w), calls)

\* the innermost call in progress runs to its next nested call or its end
serialize_step(d, w, call, calls) ==
    CASE call.k = "value"  -> Value_serialize(d, call.val, w, calls)
      [] call.k = "fields" -> ObjectValue_serialize_fields(d, call.it, w, calls)
      [] call.k = "items"  -> ArrayValue_serialize_items(d, call.it, w, calls)

\* runs the calls in progress to their end, or to the panic that unwinds them
RECURSIVE serialize_calls(_)
serialize_calls(s) ==
    IF s.calls = <<>> \/ s.w.status # "ok" THEN [d |-> s.d, w |-> s.w]
    ELSE serialize_calls(serialize_step(s.d, s.w, Head(s.calls), Tail(s.calls)))

serialize_root(root_value) ==
    serialize_calls(Serializing(root_value.d, JsonStreamWriter_new, <<ValueCall(root_value.val)>>))

Document_serialize(d) == serialize_root(Document_root_value(d))

(***************************************************************************)
(* SpecText: the text store driven directly.                               *)
(***************************************************************************)
\* JsonStreamReader::new on a source that holds one JSON value, followed or
\* not by more data
JsonStreamReader_new(trailing) == [error |-> "none", trailing |-> trailing]

NoReader == JsonStreamReader_new(FALSE)

\* the locals of Parser::parse before either is built
NoLocals == [structure |-> NoStructure, text_usage |-> NoTextUsage, steps |-> <<>>]

NoBuilder ==
    [tree_builder |-> TreeBuilder_new, text_builder |-> TextUsageBuilder_new(0, 0),
     numbers |-> <<>>, booleans |-> <<>>]

NoQuery ==
    [op |-> "none", node |-> None, key |-> <<>>, status |-> "ok", out |-> <<>>,
     val |-> Val("None"), count |-> 0]

NoGet ==
    [called |-> FALSE, text_id |-> 0, ret |-> <<>>, block_id |-> 0, decompressed |-> FALSE,
     was_resident |-> FALSE, size_before |-> 0]

\* the blocks whose slices the cache holds
Resident(tu) == {tu.cache.entries[i].key : i \in 1..Len(tu.cache.entries)}


TextInit ==
    /\ pc = "text_building"
    /\ \E block_size \in 0..MaxBlockSize, cache_capacity \in 0..MaxCache :
          text_builder = TextUsageBuilder_new(block_size, cache_capacity)
    /\ text_usage = NoTextUsage
    /\ added = <<>>
    /\ returned = <<>>
    /\ access_order = <<>>
    /\ last_get = NoGet
    /\ stack = <<>>
    /\ builder = NoBuilder
    /\ consumed = <<>>
    /\ consumed_at = <<>>
    /\ document = NoDocument
    /\ query = NoQuery
    /\ reader = NoReader
    /\ locals = NoLocals
    /\ lookup = NodeLookup_new
    /\ registered = <<>>
    /\ roaring = UsageBuilder_new
    /\ bitpacking = BitpackingUsageBuilder_new
    /\ appended = <<>>

TextAddString ==
    /\ pc = "text_building"
    /\ Len(added) < MaxAdds
    /\ \E text \in InputStrings :
          /\ returned' = Append(returned, add_string_id(text_builder))
          /\ text_builder' = add_string(text_builder, text)
          /\ added' = Append(added, text)
    /\ UNCHANGED <<pc, text_usage, access_order, last_get, parse_vars, lookup_vars, usage_vars>>

TextBuild ==
    /\ pc = "text_building"
    /\ text_usage' = build(text_builder)
    /\ pc' = "text_built"
    /\ UNCHANGED <<text_builder, added, returned, access_order, last_get, parse_vars, lookup_vars, usage_vars>>

TextGetString ==
    /\ pc = "text_built"
    /\ \E text_id \in 0..(Len(text_usage.texts) - 1) :
          LET r == get_string(text_usage, text_id)
          IN  /\ text_usage' = r.tu
              /\ last_get' = [called |-> TRUE, text_id |-> text_id, ret |-> r.ret,
                              block_id |-> r.block_id, decompressed |-> r.decompressed,
                              was_resident |-> r.block_id \in Resident(text_usage),
                              size_before |-> stats_cache_size(text_usage)]
              /\ access_order' =
                    Append(SelectSeq(access_order, LAMBDA b : b # r.block_id), r.block_id)
    /\ UNCHANGED <<pc, text_builder, added, returned, parse_vars, lookup_vars, usage_vars>>

TextNext == TextAddString \/ TextBuild \/ TextGetString

SpecText == TextInit /\ [][TextNext]_vars

(***************************************************************************)
(* Spec: Parser::parse on a token stream, then queries on the Document.    *)
(* The tokenizer is outside the program: every stream of events of a       *)
(* well-formed JSON text of at most MaxNodes nodes is possible.            *)
(***************************************************************************)
TEXT_USAGE_BLOCK_SIZE == 1048576
TEXT_USAGE_CACHE_BLOCKS == 10

\* what next_str and next_name deliver
StringValues == {<<>>, <<97>>}

FieldNames == {<<97>>, <<98>>}

\* a key no field has
AbsentKey == <<99>>

Builder_new ==
    [tree_builder |-> TreeBuilder_new,
     text_builder |-> TextUsageBuilder_new(TEXT_USAGE_BLOCK_SIZE, TEXT_USAGE_CACHE_BLOCKS),
     numbers      |-> <<>>,
     booleans     |-> <<>>]

Frame(kind) == [kind |-> kind, close_field_id |-> None]

FieldFrame(close_field_id) == [kind |-> "field", close_field_id |-> close_field_id]

Top(st) == st[Len(st)]

Pop(st) == SubSeq(st, 1, Len(st) - 1)

\* the arrays and objects being parsed
ContainerDepth(st) == Cardinality({i \in 1..Len(st) : st[i].kind # "field"})

Opens(b) == Cardinality({i \in 1..Len(b.tree_builder.parentheses) : b.tree_builder.parentheses[i]})

Init ==
    /\ pc = "parsing"
    /\ stack = <<>>
    /\ builder = Builder_new
    /\ consumed = <<>>
    /\ consumed_at = <<>>
    /\ document = NoDocument
    /\ query = NoQuery
    /\ \E trailing \in BOOLEAN : reader = JsonStreamReader_new(trailing)
    /\ locals = NoLocals
    /\ lookup = NodeLookup_new
    /\ registered = <<>>
    /\ roaring = UsageBuilder_new
    /\ bitpacking = BitpackingUsageBuilder_new
    /\ appended = <<>>
    /\ text_builder = TextUsageBuilder_new(0, 0)
    /\ text_usage = NoTextUsage
    /\ added = <<>>
    /\ returned = <<>>
    /\ access_order = <<>>
    /\ last_get = NoGet

\* parse_item is about to peek a value: at the top level, as the next element
\* of an array, or as the value of a field
ExpectingValue ==
    /\ pc = "parsing"
    /\ Opens(builder) < MaxNodes
    /\ IF stack = <<>> THEN builder.tree_builder.parentheses = <<>>
       ELSE Top(stack).kind \in {"array", "field"}

\* parse_item returned: inside the loop over an object's fields the caller
\* closes the field (close_field) before it asks for the next name
item_done(b, st) ==
    IF st # <<>> /\ Top(st).kind = "field"
    THEN [builder |-> [b EXCEPT !.tree_builder =
                          TreeBuilder_close_field(b.tree_builder, Top(st).close_field_id)],
          stack   |-> Pop(st)]
    ELSE [builder |-> b, stack |-> st]

Consume(event, pos, depth) ==
    /\ consumed' = Append(consumed, event)
    /\ consumed_at' = Append(consumed_at, [pos |-> pos, depth |-> depth])

Position == Len(builder.tree_builder.parentheses)

ParseBeginArray ==
    /\ ExpectingValue
    /\ builder' = [builder EXCEPT !.tree_builder = TreeBuilder_open(@, NodeType("Array"))]
    /\ stack' = Append(stack, Frame("array"))
    /\ Consume(Event("begin_array"), Position, ContainerDepth(stack))
    /\ UNCHANGED <<pc, document, query, finish_vars, text_vars, lookup_vars, usage_vars>>

ParseEndArray ==
    /\ pc = "parsing"
    /\ stack # <<>>
    /\ Top(stack).kind = "array"
    /\ LET b == [builder EXCEPT !.tree_builder = TreeBuilder_close(@, NodeType("Array"))]
           r == item_done(b, Pop(stack))
       IN  /\ builder' = r.builder
           /\ stack' = r.stack
    /\ Consume(Event("end_array"), Position, ContainerDepth(stack) - 1)
    /\ UNCHANGED <<pc, document, query, finish_vars, text_vars, lookup_vars, usage_vars>>

ParseBeginObject ==
    /\ ExpectingValue
    /\ builder' = [builder EXCEPT !.tree_builder = TreeBuilder_open(@, NodeType("Object"))]
    /\ stack' = Append(stack, Frame("object"))
    /\ Consume(Event("begin_object"), Position, ContainerDepth(stack))
    /\ UNCHANGED <<pc, document, query, finish_vars, text_vars, lookup_vars, usage_vars>>

ParseNextName ==
    /\ pc = "parsing"
    /\ stack # <<>>
    /\ Top(stack).kind = "object"
    /\ Opens(builder) + 2 <= MaxNodes
    /\ \E key \in FieldNames :
          LET r == TreeBuilder_open_field(builder.tree_builder, key)
          IN  /\ builder' = [builder EXCEPT !.tree_builder = r.tb]
              /\ stack' = Append(stack, FieldFrame(r.close_field_id))
              /\ Consume(NameEvent(key), Position, ContainerDepth(stack))
    /\ UNCHANGED <<pc, document, query, finish_vars, text_vars, lookup_vars, usage_vars>>

ParseEndObject ==
    /\ pc = "parsing"
    /\ stack # <<>>
    /\ Top(stack).kind = "object"
    /\ LET b == [builder EXCEPT !.tree_builder = TreeBuilder_close(@, NodeType("Object"))]
           r == item_done(b, Pop(stack))
       IN  /\ builder' = r.builder
           /\ stack' = r.stack
    /\ Consume(Event("end_object"), Position, ContainerDepth(stack) - 1)
    /\ UNCHANGED <<pc, document, query, finish_vars, text_vars, lookup_vars, usage_vars>>

ParseString ==
    /\ ExpectingValue
    /\ \E str \in StringValues :
          LET b == [builder EXCEPT
                      !.tree_builder =
                          TreeBuilder_close(TreeBuilder_open(@, NodeType("String")),
                                            NodeType("String")),
                      !.text_builder = add_string(@, str)]
              r == item_done(b, stack)
          IN  /\ builder' = r.builder
              /\ stack' = r.stack
              /\ Consume(StringEvent(str), Position, ContainerDepth(stack))
    /\ UNCHANGED <<pc, document, query, finish_vars, text_vars, lookup_vars, usage_vars>>

\* parse returns Err(error): the builder is dropped with the parser
Fail(error) ==
    /\ pc' = "failed"
    /\ reader' = [reader EXCEPT !.error = error]
    /\ builder' = NoBuilder
    /\ stack' = <<>>
    /\ UNCHANGED <<consumed, consumed_at, document, query, locals, text_vars, lookup_vars, usage_vars>>

\* some call on the reader returns Err(ReaderError) and the ? operator
\* returns it from every parse_item in progress and from parse
ParseReaderError ==
    /\ pc = "parsing"
    /\ stack # <<>> \/ builder.tree_builder.parentheses = <<>>
    /\ Fail("Reader")

NumberParsed(number, b) ==
    /\ builder' = item_done(b, stack).builder
    /\ stack' = item_done(b, stack).stack
    /\ Consume(NumberEvent(number), Position, ContainerDepth(stack))
    /\ UNCHANGED <<pc, document, query, finish_vars, text_vars, lookup_vars, usage_vars>>

ParseNumber ==
    /\ ExpectingValue
    /\ \E token \in NumberTokens :
          IF from_str_ok(token)
          THEN NumberParsed(ParseFloat(token),
                   [builder EXCEPT
                      !.tree_builder =
                          TreeBuilder_close(TreeBuilder_open(@, NodeType("Number")),
                                            NodeType("Number")),
                      !.numbers = Append(@, ParseFloat(token))])
          ELSE Fail("NumberParseError")

ParseBoolean ==
    /\ ExpectingValue
    /\ \E boolean \in BOOLEAN :
          LET b == [builder EXCEPT
                      !.tree_builder =
                          TreeBuilder_close(TreeBuilder_open(@, NodeType("Boolean")),
                                            NodeType("Boolean")),
                      !.booleans = Append(@, boolean)]
              r == item_done(b, stack)
          IN  /\ builder' = r.builder
              /\ stack' = r.stack
              /\ Consume(BoolEvent(boolean), Position, ContainerDepth(stack))
    /\ UNCHANGED <<pc, document, query, finish_vars, text_vars, lookup_vars, usage_vars>>

\* a Null branch that also appends to the booleans
ParseNull_storing_a_boolean ==
    /\ ExpectingValue
    /\ LET b == [builder EXCEPT
                   !.tree_builder =
                       TreeBuilder_close(TreeBuilder_open(@, NodeType("Null")),
                                         NodeType("Null")),
                   !.booleans = Append(@, FALSE)]
           r == item_done(b, stack)
       IN  /\ builder' = r.builder
           /\ stack' = r.stack
    /\ Consume(Event("null"), Position, ContainerDepth(stack))
    /\ UNCHANGED <<pc, document, query, finish_vars, text_vars, lookup_vars, usage_vars>>

ParseNull ==
    /\ ExpectingValue
    /\ LET b == [builder EXCEPT
                   !.tree_builder =
                       TreeBuilder_close(TreeBuilder_open(@, NodeType("Null")),
                                         NodeType("Null"))]
           r == item_done(b, stack)
       IN  /\ builder' = r.builder
           /\ stack' = r.stack
    /\ Consume(Event("null"), Position, ContainerDepth(stack))
    /\ UNCHANGED <<pc, document, query, finish_vars, text_vars, lookup_vars, usage_vars>>

\* parse_item returned to parse: build the structure and the text store and
\* assemble the Document
\* parse_item returned Ok at the top level
ItemParsed == pc = "parsing" /\ stack = <<>> /\ builder.tree_builder.parentheses # <<>>

\* let structure = Structure::new(self.builder.tree_builder)
ParseStructureNew ==
    /\ ItemParsed
    /\ locals' = [locals EXCEPT !.structure = Structure_new(builder.tree_builder),
                                !.steps = Append(@, "Structure::new")]
    /\ pc' = "structure_built"
    /\ UNCHANGED <<stack, builder, consumed, consumed_at, document, query, reader,
                   text_vars, lookup_vars, usage_vars>>

\* let text_usage = self.builder.text_builder.build()
ParseTextBuild ==
    /\ pc = "structure_built"
    /\ locals' = [locals EXCEPT !.text_usage = build(builder.text_builder),
                                !.steps = Append(@, "TextUsageBuilder::build")]
    /\ pc' = "text_usage_built"
    /\ UNCHANGED <<stack, builder, consumed, consumed_at, document, query, reader,
                   text_vars, lookup_vars, usage_vars>>

\* Ok(Document::new(structure, text_usage, numbers, booleans)); the reader
\* is dropped with the parser, whatever it has left unread
ParseDocumentNew ==
    /\ pc = "text_usage_built"
    /\ document' = Document_new(locals.structure, locals.text_usage,
                                builder.numbers, builder.booleans)
    /\ locals' = [locals EXCEPT !.steps = Append(@, "Document::new")]
    /\ reader' = NoReader
    /\ pc' = "built"
    /\ UNCHANGED <<stack, builder, consumed, consumed_at, query,
                   text_vars, lookup_vars, usage_vars>>

\* the opening positions of a node type in the document
NodesOfKind(d, kind) ==
    {i \in 0..(Len(d.structure.tree) - 1) :
        /\ d.structure.tree[i + 1]
        /\ Document_node_type(d, i).kind = kind}

\* the document is built and another query may be made
Querying == pc = "built" /\ query.count < MaxQueries

Query(op, node, key, status, out, val) ==
    [op |-> op, node |-> node, key |-> key, status |-> status, out |-> out, val |-> val,
     count |-> query.count + 1]

QuerySerialize ==
    /\ Querying
    /\ LET r == Document_serialize(document)
       IN  /\ document' = r.d
           /\ query' = Query("serialize", None, <<>>, r.w.status, r.w.out, Val("None"))
    /\ UNCHANGED <<pc, stack, builder, consumed, consumed_at, finish_vars, text_vars, lookup_vars, usage_vars>>

QueryGet ==
    /\ Querying
    /\ \E node \in NodesOfKind(document, "Object"), key \in FieldNames \cup {AbsentKey} :
          LET r == ObjectValue_get(document, node, key)
          IN  /\ document' = r.d
              /\ query' = Query("get", node, key,
                                    IF r.val.t \in Aborted THEN "panic" ELSE "ok", <<>>, r.val)
    /\ UNCHANGED <<pc, stack, builder, consumed, consumed_at, finish_vars, text_vars, lookup_vars, usage_vars>>

QueryKeys ==
    /\ Querying
    /\ \E node \in NodesOfKind(document, "Object") :
          LET r == collect_keys(document, ObjectValue_iter(document, node))
          IN  /\ document' = r.d
              /\ query' = Query("keys", node, <<>>,
                               IF r.panics THEN "panic" ELSE "ok", r.items, Val("None"))
    /\ UNCHANGED <<pc, stack, builder, consumed, consumed_at, finish_vars, text_vars, lookup_vars, usage_vars>>

QueryValues ==
    /\ Querying
    /\ \E node \in NodesOfKind(document, "Object") :
          LET r == collect_values(document, ObjectValue_iter(document, node))
          IN  /\ document' = r.d
              /\ query' = Query("values", node, <<>>,
                               IF r.panics THEN "panic" ELSE "ok", r.items, Val("None"))
    /\ UNCHANGED <<pc, stack, builder, consumed, consumed_at, finish_vars, text_vars, lookup_vars, usage_vars>>

QueryIter ==
    /\ Querying
    /\ \E node \in NodesOfKind(document, "Object") :
          LET r == collect_entries(document, ObjectValue_iter(document, node))
          IN  /\ document' = r.d
              /\ query' = Query("iter", node, <<>>,
                               IF r.panics THEN "panic" ELSE "ok", r.items, Val("None"))
    /\ UNCHANGED <<pc, stack, builder, consumed, consumed_at, finish_vars, text_vars, lookup_vars, usage_vars>>

QueryArrayIter ==
    /\ Querying
    /\ \E node \in NodesOfKind(document, "Array") :
          LET r == collect_array(document, ArrayValue_iter(document, node))
          IN  /\ document' = r.d
              /\ query' = Query("array_iter", node, <<>>,
                               IF r.panics THEN "panic" ELSE "ok", r.items, Val("None"))
    /\ UNCHANGED <<pc, stack, builder, consumed, consumed_at, finish_vars, text_vars, lookup_vars, usage_vars>>

Next ==
    \/ ParseBeginArray \/ ParseEndArray \/ ParseBeginObject \/ ParseNextName
    \/ ParseEndObject \/ ParseString \/ ParseNumber \/ ParseBoolean \/ ParseNull
    \/ ParseReaderError
    \/ ParseStructureNew \/ ParseTextBuild \/ ParseDocumentNew
    \/ QuerySerialize \/ QueryGet \/ QueryKeys \/ QueryValues \/ QueryIter
    \/ QueryArrayIter

Spec == Init /\ [][Next]_vars

(***************************************************************************)
(* The kind registry driven directly: any sequence of register and         *)
(* open_field calls on a fresh NodeLookup.                                 *)
(***************************************************************************)
MaxRegistrations == 3

FixedKinds == <<"Object", "Array", "String", "Number", "Boolean", "Null">>

NodeTypes == {NodeType(FixedKinds[k]) : k \in 1..Len(FixedKinds)}
                 \cup {NodeType_Field(name) : name \in FieldNames \cup {<<>>}}

NodeInfos == {NodeInfo_open(t) : t \in NodeTypes} \cup {NodeInfo_close(t) : t \in NodeTypes}

Registration(call, node_info, id, close_id) ==
    [call |-> call, node_info |-> node_info, id |-> id, close_id |-> close_id]

LookupInit ==
    /\ pc = "registering"
    /\ lookup = NodeLookup_new
    /\ registered = <<>>
    /\ roaring = UsageBuilder_new
    /\ bitpacking = BitpackingUsageBuilder_new
    /\ appended = <<>>
    /\ text_builder = TextUsageBuilder_new(0, 0)
    /\ text_usage = NoTextUsage
    /\ added = <<>>
    /\ returned = <<>>
    /\ access_order = <<>>
    /\ last_get = NoGet
    /\ stack = <<>>
    /\ builder = NoBuilder
    /\ consumed = <<>>
    /\ consumed_at = <<>>
    /\ document = NoDocument
    /\ query = NoQuery
    /\ reader = NoReader
    /\ locals = NoLocals

Registered(r, call, node_info) ==
    /\ lookup' = r.nl
    /\ registered' = Append(registered, Registration(call, node_info, r.id, None))

LookupRegister ==
    /\ pc = "registering"
    /\ Len(registered) < MaxRegistrations
    /\ \E node_info \in NodeInfos : Registered(register(lookup, node_info), "register", node_info)
    /\ UNCHANGED <<pc, text_vars, parse_vars, usage_vars>>

FieldRegistered(r, name) ==
    /\ lookup' = r.nl
    /\ registered' = Append(registered,
           Registration("open_field", NodeInfo_open(NodeType_Field(name)), r.open_id, r.close_id))

LookupOpenField ==
    /\ pc = "registering"
    /\ Len(registered) < MaxRegistrations
    /\ \E name \in FieldNames \cup {<<>>} : FieldRegistered(register_field_ids(lookup, name), name)
    /\ UNCHANGED <<pc, text_vars, parse_vars, usage_vars>>

LookupNext == LookupRegister \/ LookupOpenField

SpecLookup == LookupInit /\ [][LookupNext]_vars

(***************************************************************************)
(* The two usage builders driven directly with the same append calls.      *)
(***************************************************************************)
MaxAppends == 6

UsageKinds == {ARRAY_OPEN_ID, STRING_OPEN_ID, NULL_CLOSE_ID + 1}

UsageInit ==
    /\ pc = "appending"
    /\ roaring = UsageBuilder_new
    /\ bitpacking = BitpackingUsageBuilder_new
    /\ appended = <<>>
    /\ lookup = NodeLookup_new
    /\ registered = <<>>
    /\ text_builder = TextUsageBuilder_new(0, 0)
    /\ text_usage = NoTextUsage
    /\ added = <<>>
    /\ returned = <<>>
    /\ access_order = <<>>
    /\ last_get = NoGet
    /\ stack = <<>>
    /\ builder = NoBuilder
    /\ consumed = <<>>
    /\ consumed_at = <<>>
    /\ document = NoDocument
    /\ query = NoQuery
    /\ reader = NoReader
    /\ locals = NoLocals

UsageAppend ==
    /\ pc = "appending"
    /\ Len(appended) < MaxAppends
    /\ \E node_info_id \in UsageKinds :
          /\ roaring' = UsageBuilder_append(roaring, node_info_id)
          /\ bitpacking' = BitpackingUsageBuilder_append(bitpacking, node_info_id)
          /\ appended' = Append(appended, node_info_id)
    /\ UNCHANGED <<pc, text_vars, parse_vars, lookup_vars>>

UsageNext == UsageAppend

SpecUsage == UsageInit /\ [][UsageNext]_vars

(***************************************************************************)
(* Properties of the text store (checked under SpecText).                  *)
(***************************************************************************)

\* C1: the k-th add_string call (0-indexed) returns TextId k, build keeps one
\* table entry per added string, and every get_string(TextId k) on the built
\* store returns exactly the bytes passed to the k-th call, whatever
\* block_size, cache_capacity and earlier get_string calls were.
C1_AddGetRoundTrip ==
    /\ Len(returned) = Len(added)
    /\ \A k \in 1..Len(returned) : returned[k] = k - 1
    /\ pc = "text_built" =>
          /\ Len(text_usage.texts) = Len(added)
          /\ last_get.called => last_get.ret = added[last_get.text_id + 1]

\* C1 witness: after an earlier get_string on another block, a string
\* longer than block_size was retrieved from a later block.
C1_Witness ==
    /\ pc = "text_built"
    /\ last_get.called
    /\ Len(access_order) > 1
    /\ last_get.block_id > 0
    /\ Len(last_get.ret) > text_builder.block_size
    /\ \E k \in 1..Len(added) : added[k] = <<>>

PositionIn(seq, x) == CHOOSE i \in 1..Len(seq) : seq[i] = x

\* the resident block touched longest ago
LeastRecentlyAccessed(tu, order) ==
    CHOOSE b \in Resident(tu) :
        \A c \in Resident(tu) : PositionIn(order, b) <= PositionIn(order, c)

\* C9: with cache_capacity = c >= 1, a get_string that touches a block that
\* is not resident while c blocks are resident evicts the least recently
\* accessed resident block (hits count as accesses) and nothing else.
C9_LruEviction ==
    [][(/\ pc = "text_built"
        /\ text_usage.cache_capacity >= 1
        /\ Cardinality(Resident(text_usage)) = text_usage.cache_capacity
        /\ access_order' # access_order
        /\ access_order'[Len(access_order')] \notin Resident(text_usage))
       => Resident(text_usage') =
            (Resident(text_usage) \ {LeastRecentlyAccessed(text_usage, access_order)})
               \cup {access_order'[Len(access_order')]}]_vars

\* C9 witness: capacity 2, blocks 0 and 1 were loaded, block 0 was hit again
\* and then block 2 was loaded: block 1 is gone and block 0 is still there.
C9_Witness ==
    /\ pc = "text_built"
    /\ text_usage.cache_capacity = 2
    /\ access_order = <<1, 0, 2>>
    /\ Resident(text_usage) = {0, 2}
    /\ last_get.decompressed

\* C10: stats().cache_size is min(distinct blocks touched, cache_capacity);
\* it never exceeds cache_capacity, a get_string on a resident block leaves
\* it unchanged, and with cache_capacity 0 nothing is ever resident and
\* every get_string decompresses.
C10_CacheSize ==
    pc = "text_built" =>
        /\ stats_cache_size(text_usage) = Min(Len(access_order), text_usage.cache_capacity)
        /\ stats_cache_size(text_usage) <= text_usage.cache_capacity
        /\ Cardinality(Resident(text_usage)) = LruCache_len(text_usage.cache)
        /\ (last_get.called /\ last_get.was_resident) =>
               stats_cache_size(text_usage) = last_get.size_before
        /\ text_usage.cache_capacity = 0 =>
               /\ Resident(text_usage) = {}
               /\ last_get.called => last_get.decompressed

\* C10 witness: more blocks were touched than the cache holds, and the last
\* get_string was served from a resident block.
C10_Witness ==
    /\ pc = "text_built"
    /\ last_get.called
    /\ last_get.was_resident
    /\ ~last_get.decompressed
    /\ text_usage.cache_capacity >= 1
    /\ Len(access_order) > text_usage.cache_capacity

(***************************************************************************)
(* Properties of parse and of the document (checked under Spec).           *)
(* The reference is the event stream the tokenizer delivered: consumed,    *)
(* with the position and the depth of each event in consumed_at.           *)
(***************************************************************************)
Tree == document.structure.tree

Index == document.structure.usage_index

IsEnd(k) == consumed[k].ev \in {"end_array", "end_object"}

\* the event that opened, or closed, position p
EventAt(p) == CHOOSE k \in 1..Len(consumed) : consumed_at[k].pos = p

\* the end event of the array or object begun by event e
MatchingEnd(e) ==
    LET ends == {j \in (e + 1)..Len(consumed) :
                    IsEnd(j) /\ consumed_at[j].depth = consumed_at[e].depth}
    IN  CHOOSE j \in ends : \A m \in ends : j <= m

\* the events directly inside the array or object begun by event e that are
\* field names (of an object) or start an element (of an array), ascending
RECURSIVE Ascending(_)
Ascending(set) ==
    IF set = {} THEN <<>>
    ELSE LET least == CHOOSE k \in set : \A m \in set : k <= m
         IN  <<least>> \o Ascending(set \ {least})

ChildEvents(e) ==
    Ascending({k \in (e + 1)..(MatchingEnd(e) - 1) :
                  ~IsEnd(k) /\ consumed_at[k].depth = consumed_at[e].depth + 1
                  /\ (consumed[e].ev = "begin_object" => consumed[k].ev = "name")})

\* the Value of the JSON value that starts at event k
ValueOfEvent(k) ==
    LET e == consumed[k]
    IN  CASE e.ev = "begin_object" -> [Val("Object") EXCEPT !.node = consumed_at[k].pos]
          [] e.ev = "begin_array"  -> [Val("Array") EXCEPT !.node = consumed_at[k].pos]
          [] e.ev = "string"       -> [Val("String") EXCEPT !.str = e.str]
          [] e.ev = "number"       -> [Val("Number") EXCEPT !.num = e.num]
          [] e.ev = "bool"         -> [Val("Boolean") EXCEPT !.bool = e.bool]
          [] e.ev = "null"         -> Val("Null")

\* C2: serialize of a parsed document ends normally and emits exactly the
\* event sequence parse consumed, so its output parses to an equal document.
C2_SerializeRoundTrip ==
    (pc = "built" /\ query.op = "serialize") =>
        /\ query.status = "ok"
        /\ query.out = consumed

PositionsOfKind(id) == {i \in 0..(Len(Tree) - 1) : UsageIndex_node_info_id(Index, i) = id}

EventsOfKind(ev) == {k \in 1..Len(consumed) : consumed[k].ev = ev}

\* C3: after parse there are as many StringOpen positions as stored strings,
\* NumberOpen positions as numbers and BooleanOpen positions as booleans
\* (nulls store nothing), and the entry at rank(i, Open kind) of the side
\* store is the value the tokenizer delivered for the node at position i.
C3_SideStoresByRank ==
    pc = "built" =>
        /\ Cardinality(PositionsOfKind(STRING_OPEN_ID)) = Len(document.text_usage.texts)
        /\ Cardinality(PositionsOfKind(NUMBER_OPEN_ID)) = Len(document.numbers)
        /\ Cardinality(PositionsOfKind(BOOLEAN_OPEN_ID)) = Len(document.booleans)
        /\ Cardinality(EventsOfKind("string")) = Len(document.text_usage.texts)
        /\ Cardinality(EventsOfKind("number")) = Len(document.numbers)
        /\ Cardinality(EventsOfKind("bool")) = Len(document.booleans)
        /\ \A k \in 1..Len(consumed) :
              LET e == consumed[k]
                  i == consumed_at[k].pos
              IN  /\ e.ev = "string" =>
                        /\ UsageIndex_node_info_id(Index, i) = STRING_OPEN_ID
                        /\ get_string(document.text_usage,
                                      UsageIndex_rank(Index, i, STRING_OPEN_ID)).ret = e.str
                  /\ e.ev = "number" =>
                        /\ UsageIndex_node_info_id(Index, i) = NUMBER_OPEN_ID
                        /\ document.numbers[UsageIndex_rank(Index, i, NUMBER_OPEN_ID) + 1] = e.num
                  /\ e.ev = "bool" =>
                        /\ UsageIndex_node_info_id(Index, i) = BOOLEAN_OPEN_ID
                        /\ document.booleans[UsageIndex_rank(Index, i, BOOLEAN_OPEN_ID) + 1] = e.bool
                  /\ e.ev = "null" => UsageIndex_node_info_id(Index, i) = NULL_OPEN_ID

\* C3 witness: a parsed document with two different strings, two different
\* numbers, two different booleans or a null between two booleans.
C3_Witness ==
    /\ pc = "built"
    /\ \/ /\ Len(document.text_usage.texts) = 2
          /\ get_string(document.text_usage, 0).ret # get_string(document.text_usage, 1).ret
          /\ Len(document.numbers) = 2
          /\ document.numbers[1] # document.numbers[2]
       \/ /\ document.booleans = <<TRUE, FALSE>>
          /\ EventsOfKind("null") # {}
          /\ EventsOfKind("name") # {}

OpensIn(P, n) == Cardinality({k \in 1..n : P[k]})

ClosesIn(P, n) == Cardinality({k \in 1..n : ~P[k]})

\* C4: after parse the parentheses sequence has even length and is
\* balanced: no prefix has more closes than opens, the whole has as many.
C4_Balanced ==
    pc = "built" =>
        /\ Len(Tree) % 2 = 0
        /\ \A n \in 1..Len(Tree) : OpensIn(Tree, n) >= ClosesIn(Tree, n)
        /\ OpensIn(Tree, Len(Tree)) = ClosesIn(Tree, Len(Tree))

\* C4 witness: a parsed document of MaxNodes nodes nested three deep.
C4_Witness ==
    /\ pc = "built"
    /\ Len(Tree) >= 8
    /\ \E k \in 1..Len(consumed) : consumed_at[k].depth >= 2
    /\ EventsOfKind("name") # {}

KindsSetAt(i) ==
    {k \in 1..Len(Index.sparse_rs_vecs) : is_set(Index.sparse_rs_vecs[k], i) = "true"}

\* C5: after build every position below |P| is in the position set of
\* exactly one kind, kind_at gives that kind, and kind_at gives None at and
\* beyond |P|.
C5_OneKindPerPosition ==
    pc = "built" =>
        /\ \A i \in 0..(Len(Tree) - 1) :
              /\ Cardinality(KindsSetAt(i)) = 1
              /\ UsageIndex_node_info_id(Index, i) + 1 \in KindsSetAt(i)
        /\ \A i \in Len(Tree)..(Len(Tree) + 2) : UsageIndex_node_info_id(Index, i) = None

\* C5 witness: a parsed document with a field, so with kinds beyond the
\* twelve fixed ones, and at least six positions.
C5_Witness ==
    /\ pc = "built"
    /\ Len(Tree) >= 6
    /\ Len(Index.sparse_rs_vecs) > 12

\* C6: after parse the close matching an opening position carries the Close
\* kind of the same node type (for a field, of the same field name).
C6_MatchingCloseKind ==
    pc = "built" =>
        \A i \in 0..(Len(Tree) - 1) :
            Tree[i + 1] =>
                /\ find_close(Tree, i) # None
                /\ Structure_node_info(document.structure, i).is_open_tag
                /\ Structure_node_info(document.structure, find_close(Tree, i)) =
                      NodeInfo_close(Structure_node_info(document.structure, i).node_type)

\* C6 witness: a parsed object with two fields of different names, one of
\* them holding an array or an object.
C6_Witness ==
    /\ pc = "built"
    /\ \E j, k \in EventsOfKind("name") : consumed[j].str # consumed[k].str
    /\ \E k \in 2..Len(consumed) :
          consumed[k].ev \in {"begin_array", "begin_object"} /\ consumed[k - 1].ev = "name"

FieldsNamed(e, key) ==
    SelectSeq(ChildEvents(e), LAMBDA k : consumed[k].str = key)

\* C7: get(K) on an object returns the value of the first field named K in
\* source order, and None when the object has no field named K.
C7_GetFirstField ==
    (pc = "built" /\ query.op = "get") =>
        LET named == FieldsNamed(EventAt(query.node), query.key)
        IN  IF named = <<>> THEN query.val = Val("None")
            ELSE query.val = ValueOfEvent(named[1] + 1)

\* C7 witness: get on an object with two fields of the key whose values
\* differ returned the first one's value.
C7_Witness ==
    /\ pc = "built"
    /\ query.op = "get"
    /\ LET named == FieldsNamed(EventAt(query.node), query.key)
       IN  /\ Len(named) = 2
           /\ ValueOfEvent(named[1] + 1) # ValueOfEvent(named[2] + 1)
           /\ query.val = ValueOfEvent(named[1] + 1)

\* C8: keys, values and iter of an object yield every field occurrence once,
\* duplicates included, in source order; the iterator of an array yields
\* every element once in source order; serialize re-emits all of them in
\* that order.
C8_IterationInSourceOrder ==
    pc = "built" =>
        LET children == IF query.op \in {"keys", "values", "iter", "array_iter"}
                        THEN ChildEvents(EventAt(query.node)) ELSE <<>>
        IN  /\ query.op = "keys" =>
                  query.out = [n \in 1..Len(children) |-> consumed[children[n]].str]
            /\ query.op = "values" =>
                  query.out = [n \in 1..Len(children) |-> ValueOfEvent(children[n] + 1)]
            /\ query.op = "iter" =>
                  query.out = [n \in 1..Len(children) |->
                                  [key |-> consumed[children[n]].str,
                                   val |-> ValueOfEvent(children[n] + 1)]]
            /\ query.op = "array_iter" =>
                  query.out = [n \in 1..Len(children) |-> ValueOfEvent(children[n])]
            /\ query.op = "serialize" => query.out = consumed

\* C11: a query on a built document (value extraction, hence get_string) and
\* a get_string on a built text store change nothing but the LRU cache: the
\* blocks, the text-to-block table, the usage index, the tree, the numbers
\* and the booleans stay as they are, and heap_size() returns the same value.
C11_QueriesKeepHeapSize ==
    [][/\ (pc = "built" /\ pc' = "built") =>
              /\ document'.structure = document.structure
              /\ document'.numbers = document.numbers
              /\ document'.booleans = document.booleans
              /\ document'.text_usage.blocks = document.text_usage.blocks
              /\ document'.text_usage.texts = document.text_usage.texts
              /\ Document_heap_size(document') = Document_heap_size(document)
       /\ (pc = "text_built" /\ pc' = "text_built") =>
              /\ text_usage'.blocks = text_usage.blocks
              /\ text_usage'.texts = text_usage.texts
              /\ TextUsage_heap_size(text_usage') = TextUsage_heap_size(text_usage)
              /\ stats_total_blocks(text_usage') = stats_total_blocks(text_usage)]_vars

\* C11 witness: a query extracted two stored strings from one block (a run
\* of bytes in its data) and left that block resident in the cache.
C11_Witness ==
    /\ pc = "built"
    /\ query.op \in {"values", "array_iter", "serialize"}
    /\ Len(document.text_usage.texts) >= 2
    /\ Resident(document.text_usage) # {}
    /\ Document_heap_size(document) > 0

\* the kinds the usage index of the parsed document holds a vector for
KindsOf(ix) == 0..(Len(ix.sparse_rs_vecs) - 1)

\* position i of the parsed document is of kind k
IsOfKind(i, k) == is_set(Index.sparse_rs_vecs[k + 1], i) = "true"

\* the positions of kind k strictly below position s
OfKindBelow(s, k) == {p \in 0..(s - 1) : IsOfKind(p, k)}

\* position s is the r-th (0-indexed) occurrence of kind k, and rank at s
\* gives r back
IsRthOccurrence(s, r, k) ==
    /\ s # None
    /\ IsOfKind(s, k)
    /\ Cardinality(OfKindBelow(s, k)) = r
    /\ UsageIndex_rank(Index, s, k) = r

\* C12: for every kind k of a parsed document and every r below the number
\* of positions of kind k, select(r, k) is the position of the r-th
\* occurrence of k and rank(select(r, k), k) = r.
C12_RankOfSelect ==
    pc = "built" =>
        \A k \in KindsOf(Index) :
            \A r \in 0..(Cardinality(OfKindBelow(Index.len, k)) - 1) :
                IsRthOccurrence(UsageIndex_select(Index, r, k), r, k)

\* C12 witness: a parsed document in which some kind occurs at two positions
\* that are not adjacent, so that select has a second occurrence to find.
C12_Witness ==
    /\ pc = "built"
    /\ \E k \in KindsOf(Index) :
           \E p, q \in OfKindBelow(Index.len, k) : q > p + 1

\* the argument select is given in the spec's second law
SelectArgument(i, k) == UsageIndex_rank(Index, i, k) - (IF IsOfKind(i, k) THEN 1 ELSE 0)

\* select(arg, k) <= i wherever the argument is a rank and select finds a
\* position
SelectAtMost(arg, i, k) ==
    (arg >= 0 /\ UsageIndex_select(Index, arg, k) # None) =>
        UsageIndex_select(Index, arg, k) <= i

\* C13 as the spec states it: for every position i <= |P| and every kind k,
\* select(rank(i, k) - [i is of k], k) <= i.
C13_SelectOfRankAtMost ==
    pc = "built" =>
        \A i \in 0..Index.len : \A k \in KindsOf(Index) :
            SelectAtMost(SelectArgument(i, k), i, k)

\* around rank r of position i: select(r, k) is i itself when i is of kind
\* k and otherwise None or after i; select(r - 1, k) is strictly below i
SelectAround(r, i, k) ==
    /\ r # None
    /\ IsOfKind(i, k) => UsageIndex_select(Index, r, k) = i
    /\ ~IsOfKind(i, k) =>
           \/ UsageIndex_select(Index, r, k) = None
           \/ UsageIndex_select(Index, r, k) > i
    /\ r >= 1 =>
           /\ UsageIndex_select(Index, r - 1, k) # None
           /\ UsageIndex_select(Index, r - 1, k) < i

\* C13, amended to the rank the code computes (positions strictly below i):
\* for every i <= |P| and kind k, select(rank(i, k), k) is i when i is of
\* kind k and otherwise lies after i or is None, and when rank(i, k) >= 1 the
\* occurrence before it, select(rank(i, k) - 1, k), lies strictly below i.
C13_SelectAroundRank ==
    pc = "built" =>
        \A i \in 0..Index.len : \A k \in KindsOf(Index) :
            SelectAround(UsageIndex_rank(Index, i, k), i, k)

\* C13 witness: a parsed document with a position that is the second
\* occurrence of its kind, and a position of another kind lying before an
\* occurrence of that kind.
C13_Witness ==
    /\ pc = "built"
    /\ \E k \in KindsOf(Index) :
           /\ \E i \in OfKindBelow(Index.len, k) : UsageIndex_rank(Index, i, k) >= 1
           /\ \E i \in 0..Index.len :
                  ~IsOfKind(i, k) /\ \E p \in OfKindBelow(Index.len, k) : p > i

\* the strings added and not yet in a block, with their sentinels
PendingBytes(b, strings) ==
    SumSeq([k \in 1..Len(b.current_block_starts) |-> Len(strings[Len(b.texts) + k]) + 1])

\* add_string(s) took builder b to b2 by closing the current block first
FinalizedBefore(b, b2, s) ==
    /\ Len(b2.blocks) = Len(b.blocks) + 1
    /\ Block_decompress(b2.blocks[Len(b2.blocks)]) = b.current_block_buffer
    /\ Len(b2.texts) = Len(b.texts) + Len(b.current_block_starts)
    /\ b2.current_block_buffer = s \o <<0>>
    /\ b2.current_block_starts = <<0>>

\* add_string(s) took builder b to b2 by appending to the current block
AppendedToCurrent(b, b2, s) ==
    /\ b2.blocks = b.blocks
    /\ b2.texts = b.texts
    /\ b2.current_block_buffer = (b.current_block_buffer \o s) \o <<0>>
    /\ b2.current_block_starts = Append(b.current_block_starts, Len(b.current_block_buffer))

\* C14: the buffer length is the bytes plus one sentinel of every pending
\* string, and add_string(s) finalizes the current block before appending s
\* exactly when that length plus |s| exceeds block_size and the buffer is not
\* empty; otherwise s joins the current block.
C14_FinalizeIffOverflow ==
    [][(pc = "text_building" /\ Len(added') = Len(added) + 1) =>
          /\ Len(text_builder.current_block_buffer) = PendingBytes(text_builder, added)
          /\ IF Len(text_builder.current_block_buffer) + Len(added'[Len(added')])
                    > text_builder.block_size
                /\ text_builder.current_block_buffer # <<>>
             THEN FinalizedBefore(text_builder, text_builder', added'[Len(added')])
             ELSE AppendedToCurrent(text_builder, text_builder', added'[Len(added')])]_vars

\* C14 witness: a builder in which one add_string closed a block and a later
\* one joined the block that was open.
C14_Witness ==
    /\ pc = "text_building"
    /\ Len(text_builder.blocks) >= 1
    /\ Len(text_builder.current_block_starts) >= 2

\* the TextIds stored in the block that holds text_id
TextsInBlockOf(tu, text_id) ==
    {t \in 0..(Len(tu.texts) - 1) : tu.texts[t + 1] = tu.texts[text_id + 1]}

\* C15: after build, a string at least block_size long is the only string of
\* its block, whatever was added before or after it.
C15_LongStringAlone ==
    pc = "text_built" =>
        \A t \in 0..(Len(added) - 1) :
            Len(added[t + 1]) >= text_builder.block_size =>
                /\ TextsInBlockOf(text_usage, t) = {t}
                /\ block_slices(text_usage.blocks[text_usage.texts[t + 1] + 1]) = <<added[t + 1]>>

\* C15 witness: a built store with block_size at least 1 where a string of
\* at least that length was added between a shorter string and another one.
C15_Witness ==
    /\ pc = "text_built"
    /\ text_builder.block_size >= 1
    /\ Len(added) = 3
    /\ Len(added[1]) < text_builder.block_size
    /\ Len(added[2]) >= text_builder.block_size
    /\ TextsInBlockOf(text_usage, 1) = {1}

(***************************************************************************)
(* Properties of the kind registry (checked under SpecLookup).             *)
(***************************************************************************)

\* the (NodeInfo, id) pairs the calls so far returned: one per register call,
\* the open and the close pair of every open_field call
Returned ==
    {<<registered[k].node_info, registered[k].id>> : k \in 1..Len(registered)}
        \cup {<<NodeInfo_close(registered[k].node_info.node_type), registered[k].close_id>> :
                 k \in {j \in 1..Len(registered) : registered[j].call = "open_field"}}

\* C16: over any sequence of registrations equal (is_open, node type) inputs
\* were given equal ids and different inputs different ids, the open and the
\* close kind of one field name differ, by_node_info_id of a returned id
\* gives the registered info back, and open_field returned the same
\* (open_id, close_id) pair on every call with the same name.
C16_RegisterIdempotent ==
    pc = "registering" =>
        /\ \A x, y \in Returned : (x[1] = y[1]) <=> (x[2] = y[2])
        /\ \A x \in Returned :
               /\ x[2] \in 0..(Len(lookup.node_infos) - 1)
               /\ by_node_info_id(lookup, x[2]) = x[1]
        /\ \A k \in 1..Len(registered) :
               registered[k].call = "open_field" => registered[k].id # registered[k].close_id

\* C16 witness: the same field was registered twice, by register and by
\* open_field, next to another kind.
C16_Witness ==
    /\ pc = "registering"
    /\ Len(registered) = MaxRegistrations
    /\ \E j, k \in 1..Len(registered) :
           /\ j < k
           /\ registered[j].node_info = registered[k].node_info
           /\ registered[j].node_info.node_type.kind = "Field"
           /\ registered[j].call # registered[k].call
    /\ Cardinality(Returned) >= 3

\* the fixed id of a non-Field kind: twice its place in the order Object,
\* Array, String, Number, Boolean, Null, plus one for the close kind
FixedId(node_info) ==
    2 * ((CHOOSE k \in 1..Len(FixedKinds) : FixedKinds[k] = node_info.node_type.kind) - 1)
        + (IF node_info.is_open_tag THEN 0 ELSE 1)

\* C17: whatever the order of registrations, a non-Field kind gets its fixed
\* id (ObjectOpen 0, ObjectClose 1, ... NullClose 11) and a Field kind gets an
\* id of 12 or more.
C17_FixedIds ==
    pc = "registering" =>
        /\ \A x \in Returned :
               IF x[1].node_type.kind = "Field" THEN x[2] >= 12 ELSE x[2] = FixedId(x[1])
        /\ \A node_info \in NodeInfos :
               node_info.node_type.kind # "Field" =>
                   /\ by_node_info_id(lookup, FixedId(node_info)) = node_info
                   /\ register(lookup, node_info).id = FixedId(node_info)
        /\ FixedId(NodeInfo_open(NodeType("Object"))) = OBJECT_OPEN_ID
        /\ FixedId(NodeInfo_close(NodeType("Null"))) = NULL_CLOSE_ID

\* C17 witness: a field was registered before a non-Field kind.
C17_Witness ==
    /\ pc = "registering"
    /\ \E j, k \in 1..Len(registered) :
           /\ j < k
           /\ registered[j].node_info.node_type.kind = "Field"
           /\ registered[k].node_info.node_type.kind \notin {"Field", "Object"}

(***************************************************************************)
(* Properties of the usage builders (checked under SpecUsage).             *)
(***************************************************************************)

\* two indexes give the same answer to every query at position i and rank r
\* for kind k
SameAnswers(a, b, i, k) ==
    /\ UsageIndex_node_info_id(a, i) = UsageIndex_node_info_id(b, i)
    /\ UsageIndex_rank(a, i, k) = UsageIndex_rank(b, i, k)
    /\ UsageIndex_select(a, i, k) = UsageIndex_select(b, i, k)

\* two indexes agree in length, in the positions of every kind and in the
\* answers they give; text_id, number_id and boolean_id are compared where
\* the index holds a vector for the kind they read
SameIndex(a, b) ==
    /\ a.len = b.len
    /\ Len(a.sparse_rs_vecs) = Len(b.sparse_rs_vecs)
    /\ \A k \in 1..Len(a.sparse_rs_vecs) :
           /\ Range(iter1(a.sparse_rs_vecs[k])) = Range(iter1(b.sparse_rs_vecs[k]))
           /\ \A i \in 0..(a.len + 1) : SameAnswers(a, b, i, k - 1)
    /\ \A i \in 0..(a.len + 1) :
           /\ Len(a.sparse_rs_vecs) > STRING_OPEN_ID => UsageIndex_text_id(a, i) = UsageIndex_text_id(b, i)
           /\ Len(a.sparse_rs_vecs) > NUMBER_OPEN_ID => UsageIndex_number_id(a, i) = UsageIndex_number_id(b, i)
           /\ Len(a.sparse_rs_vecs) > BOOLEAN_OPEN_ID => UsageIndex_boolean_id(a, i) = UsageIndex_boolean_id(b, i)

\* the positions at which kind k was appended
AppendedAt(k) == {i \in 0..(Len(appended) - 1) : appended[i + 1] = k}

\* C18: after any sequence of append(kind_id) calls the index built by the
\* roaring builder and the one built by the bitpacking builder have the same
\* length and, for every kind, the positions that kind was appended at, and
\* so give the same answers to kind_at, rank, select, text_id, number_id and
\* boolean_id.
C18_BuildersAgree ==
    pc = "appending" =>
        /\ SameIndex(UsageBuilder_build(roaring), BitpackingUsageBuilder_build(bitpacking))
        /\ BitpackingUsageBuilder_build(bitpacking).len = Len(appended)
        /\ \A k \in 1..Len(bitpacking.usage) :
               Range(iter1(BitpackingUsageBuilder_build(bitpacking).sparse_rs_vecs[k]))
                   = AppendedAt(k - 1)

\* C18 witness: one kind was appended often enough for the bitpacking
\* builder to hold two packed blocks and a remainder, one of the blocks
\* packed with at least one bit.
C18_Witness ==
    /\ pc = "appending"
    /\ \E k \in 1..Len(bitpacking.usage) :
           /\ Len(bitpacking.usage[k].block_infos) >= 2
           /\ bitpacking.usage[k].remainder # <<>>
           /\ \E n \in 1..Len(bitpacking.usage[k].block_infos) :
                  bitpacking.usage[k].block_infos[n].num_bits >= 1

(***************************************************************************)
(* Properties of parse as a whole (checked under Spec).                    *)
(***************************************************************************)

\* the events consumed so far are those of one complete JSON value
WholeValueConsumed ==
    /\ consumed # <<>>
    /\ stack = <<>>
    /\ Len(builder.tree_builder.parentheses) = 2 * Opens(builder)

\* a failed reader call or number conversion ends parse with an error and
\* without a Document
ErrorsLeaveNoDocument ==
    /\ reader.error # "none" <=> pc = "failed"
    /\ pc = "failed" => document = NoDocument /\ locals = NoLocals
    /\ document # NoDocument => pc = "built" /\ reader.error = "none" /\ WholeValueConsumed

\* C19: a failing tokenizer call or number conversion makes parse return an
\* error with no Document constructed, and Document::new is reached only
\* after the whole input was consumed without error.
C19_DocumentOnlyAfterWholeInput ==
    /\ ErrorsLeaveNoDocument
    /\ pc = "text_usage_built" => WholeValueConsumed /\ ~reader.trailing

\* C20: at the end of parse the text store is finalized first, then the
\* usage index is materialized (Structure::new), then the Document is
\* assembled.
C20_FinalizationOrder ==
    pc = "built" =>
        locals.steps = <<"TextUsageBuilder::build", "Structure::new", "Document::new">>

(***************************************************************************)
(* Properties of the cache's guard (checked under SpecText).               *)
(***************************************************************************)

\* the ways of holding the cache that make concurrent get_string calls
\* safe: interior mutual exclusion, or a cache of each thread's own
ThreadSafeGuards == {"Mutex", "RwLock", "thread_local"}

\* C21: the LRU cache of a built text store, the only mutable state on the
\* read path, is guarded by interior mutual exclusion or is thread-local, so
\* that get_string calls from several threads are safe.
C21_CacheGuardedForThreads ==
    pc = "text_built" => text_usage.cache_guard \in ThreadSafeGuards

(***************************************************************************)
(* Properties of the queries' failure behaviour (checked under Spec).      *)
(***************************************************************************)

\* C22: serialize of a successfully parsed document ends with Ok or with an
\* I/O error of the sink; it never aborts and reports no other error,
\* whatever numbers the document holds.
C22_SerializeNeverAborts ==
    (pc = "built" /\ query.op = "serialize") => query.status \in {"ok", "io_error"}

\* the positions of the parsed document that do not open a node of kind k
NotOpening(k) == {i \in 0..(Index.len - 1) : UsageIndex_node_info_id(Index, i) # k}

\* C23: text_id on a position that is not a string node aborts rather than
\* returning a value, and likewise number_id on a position that is not a
\* number node and boolean_id on one that is not a boolean node.
C23_IdOfOtherKindAborts ==
    pc = "built" =>
        /\ NotOpening(STRING_OPEN_ID) # {} => UsageIndex_aborts(Index, STRING_OPEN_ID)
        /\ NotOpening(NUMBER_OPEN_ID) # {} => UsageIndex_aborts(Index, NUMBER_OPEN_ID)
        /\ NotOpening(BOOLEAN_OPEN_ID) # {} => UsageIndex_aborts(Index, BOOLEAN_OPEN_ID)

\* C24: after build the usage index holds a bit-vector for every registered
\* kind, the twelve fixed kinds included, so rank(i, k) is Some(count) for
\* every registered k and every i <= |P| and never aborts.
C24_VectorForEveryKind ==
    pc = "built" =>
        \A k \in 0..(Len(Index.node_lookup.node_infos) - 1) :
            /\ ~UsageIndex_aborts(Index, k)
            /\ \A i \in 0..Index.len : UsageIndex_rank(Index, i, k) # None

(***************************************************************************)
(* Properties of the packed sequences (checked under SpecUsage).           *)
(***************************************************************************)

\* the values appended to the Packed sequence of kind k, in call order: the
\* positions at which k was appended, a strictly increasing sequence
AppendedValues(k) ==
    SelectSeq([i \in 1..Len(appended) |-> i - 1], LAMBDA v : appended[v + 1] = k)

\* C25: for every strictly increasing sequence of values appended one by one
\* to a Packed sequence (empty, shorter than a block, whole blocks, blocks
\* and a tail), decompressed() returns the appended values in order.
C25_PackedRoundTrip ==
    pc = "appending" =>
        \A k \in 1..Len(bitpacking.usage) :
            Packed_decompressed(bitpacking.usage[k]) = AppendedValues(k - 1)

\* C25 witness: one Packed sequence holds exactly two full blocks and no
\* tail, one of them packed with at least one bit, another sequence holds
\* only a tail, and a third is empty.
C25_Witness ==
    /\ pc = "appending"
    /\ \E k \in 1..Len(bitpacking.usage) :
           /\ Len(bitpacking.usage[k].block_infos) = 2
           /\ bitpacking.usage[k].remainder = <<>>
           /\ bitpacking.usage[k].compressed # <<>>
    /\ \E k \in 1..Len(bitpacking.usage) :
           /\ bitpacking.usage[k].block_infos = <<>>
           /\ bitpacking.usage[k].remainder # <<>>
    /\ \E k \in 1..Len(bitpacking.usage) : bitpacking.usage[k] = Packed_new

(***************************************************************************)
(* Properties of the block boundaries (checked under SpecText).            *)
(***************************************************************************)

\* the TextIds of the non-empty strings added
NonEmptyAdds == {t \in 0..(Len(added) - 1) : added[t + 1] # <<>>}

\* C26 as stated: with block_size 0 the built store has one block per
\* non-empty string added, and an empty string added after another string
\* shares the block of the string before it.
C26_ZeroBlockSizeNonEmptyBlocks ==
    (pc = "text_built" /\ text_builder.block_size = 0) =>
        /\ Len(text_usage.blocks) = Cardinality(NonEmptyAdds)
        /\ \A t \in 1..(Len(added) - 1) :
               added[t + 1] = <<>> => text_usage.texts[t + 1] = text_usage.texts[t]

\* C26 amended: with block_size 0 the built store has one block per string
\* added, empty or not: string t is the only string of block t.
C26_ZeroBlockSizeBlockPerAdd ==
    (pc = "text_built" /\ text_builder.block_size = 0) =>
        /\ Len(text_usage.blocks) = Len(added)
        /\ \A t \in 0..(Len(added) - 1) :
               /\ text_usage.texts[t + 1] = t
               /\ block_slices(text_usage.blocks[t + 1]) = <<added[t + 1]>>

\* C26 witness: a store built with block_size 0 from a non-empty string, an
\* empty string and another string; the empty string has a block of its own.
C26_Witness ==
    /\ pc = "text_built"
    /\ text_builder.block_size = 0
    /\ Len(added) = 3
    /\ added[1] # <<>>
    /\ added[2] = <<>>
    /\ text_usage.texts[2] # text_usage.texts[1]
    /\ text_usage.texts[3] # text_usage.texts[2]

\* C27: block capacity is counted in string bytes: when more than block_size
\* strings of one byte each are added to a builder with block_size n >= 1,
\* the first n land in the first block and string n + 1 starts the second.
C27_CapacityInStringBytes ==
    (/\ pc = "text_built"
     /\ text_builder.block_size >= 1
     /\ Len(added) > text_builder.block_size
     /\ \A t \in 1..Len(added) : Len(added[t]) = 1) =>
        /\ \A t \in 1..text_builder.block_size : text_usage.texts[t] = 0
        /\ text_usage.texts[text_builder.block_size + 1] = 1

\* the TextIds the text-to-block table assigns to block b
TextsOfBlock(tu, b) == {t \in 0..(Len(tu.texts) - 1) : tu.texts[t + 1] = b}

\* the first TextId after those of block b
NextStart(tu, b) ==
    IF b + 1 < Len(tu.blocks) THEN tu.blocks[b + 2].start_text_id ELSE Len(tu.texts)

\* C28: after build the table has one entry per add_string call, block b
\* holds exactly the ids from its start_text_id up to the start_text_id of
\* block b + 1, every block holds at least one string, and so the offset
\* get_string computes is never negative and is below the number of slices.
C28_ContiguousRuns ==
    pc = "text_built" =>
        /\ Len(text_usage.texts) = Len(added)
        /\ added = <<>> => text_usage.blocks = <<>>
        /\ \A b \in 0..(Len(text_usage.blocks) - 1) :
               /\ TextsOfBlock(text_usage, b) =
                      text_usage.blocks[b + 1].start_text_id..(NextStart(text_usage, b) - 1)
               /\ TextsOfBlock(text_usage, b) # {}
               /\ Len(block_slices(text_usage.blocks[b + 1])) =
                      Cardinality(TextsOfBlock(text_usage, b))
        /\ \A t \in 0..(Len(text_usage.texts) - 1) :
               /\ text_usage.texts[t + 1] \in 0..(Len(text_usage.blocks) - 1)
               /\ t - text_usage.blocks[text_usage.texts[t + 1] + 1].start_text_id \in
                      0..(Len(block_slices(text_usage.blocks[text_usage.texts[t + 1] + 1])) - 1)

\* C28 witness: a built store whose first block holds two strings and whose
\* second block starts at TextId 2.
C28_Witness ==
    /\ pc = "text_built"
    /\ Len(text_usage.blocks) = 2
    /\ TextsOfBlock(text_usage, 0) = {0, 1}
    /\ text_usage.blocks[2].start_text_id = 2

\* C29: a block holding two or more strings has a decompressed size (string
\* bytes plus one sentinel per string) of at most block_size + 1.
C29_MultiStringBlockSize ==
    pc = "text_built" =>
        \A b \in 1..Len(text_usage.blocks) :
            /\ text_usage.blocks[b].original_size = Len(Block_decompress(text_usage.blocks[b]))
            /\ text_usage.blocks[b].original_size =
                   SumSeq([i \in 1..Len(block_slices(text_usage.blocks[b])) |->
                              Len(block_slices(text_usage.blocks[b])[i]) + 1])
            /\ Len(block_slices(text_usage.blocks[b])) >= 2 =>
                   text_usage.blocks[b].original_size <= text_builder.block_size + 1

\* C29 witness: a built store with a two-string block of exactly
\* block_size + 1 bytes followed by a one-string block that is larger.
C29_Witness ==
    /\ pc = "text_built"
    /\ Len(text_usage.blocks) = 2
    /\ Len(block_slices(text_usage.blocks[1])) = 2
    /\ text_usage.blocks[1].original_size = text_builder.block_size + 1
    /\ Len(block_slices(text_usage.blocks[2])) = 1
    /\ text_usage.blocks[2].original_size > text_builder.block_size + 1

(***************************************************************************)
(* Properties of the nodes the iterators reach (checked under Spec).       *)
(***************************************************************************)

\* the nodes an iterator started at node n yields: n and its later siblings
RECURSIVE SiblingsFrom(_, _)
SiblingsFrom(tree, n) ==
    IF n = None THEN {} ELSE {n} \cup SiblingsFrom(tree, next_sibling(tree, n))

\* the nodes the iterator of the array, object or field at n yields
ChildrenOf(tree, n) == SiblingsFrom(tree, first_child(tree, n))

\* the nodes reached from n through the iterators
RECURSIVE ReachedFrom(_, _)
ReachedFrom(tree, n) ==
    {n} \cup UNION {ReachedFrom(tree, c) : c \in ChildrenOf(tree, n)}

\* node n is an opening position
IsOpening(n) ==
    /\ document.structure.tree[n + 1]
    /\ Structure_node_info(document.structure, n).is_open_tag

\* node n is an opening position of a value kind
IsValueNode(n) == IsOpening(n) /\ Document_node_type(document, n).kind # "Field"

\* node n is an opening position of a Field with one child, of a value kind
IsFieldNode(n) ==
    /\ IsOpening(n)
    /\ Document_node_type(document, n).kind = "Field"
    /\ Cardinality(ChildrenOf(document.structure.tree, n)) = 1
    /\ \A v \in ChildrenOf(document.structure.tree, n) : IsValueNode(v)

\* C30: in every parsed document the root and every child of an Array are
\* opening positions of a value kind, every child of an Object is an opening
\* position of Field kind with exactly one child, of a value kind, and the
\* value, get and iterator queries never reach unreachable!() or unwrap a
\* None.
C30_IteratorsReachOpenings ==
    pc = "built" =>
        /\ Document_root(document) # Panics
        /\ IsValueNode(Document_root(document))
        /\ \A n \in ReachedFrom(document.structure.tree, Document_root(document)) :
               /\ IsOpening(n)
               /\ Document_node_type(document, n).kind = "Array" =>
                      \A c \in ChildrenOf(document.structure.tree, n) : IsValueNode(c)
               /\ Document_node_type(document, n).kind = "Object" =>
                      \A c \in ChildrenOf(document.structure.tree, n) : IsFieldNode(c)
               /\ Document_node_type(document, n).kind \in
                      {"String", "Number", "Boolean", "Null"} =>
                      ChildrenOf(document.structure.tree, n) = {}
        /\ query.op \in {"get", "keys", "values", "iter", "array_iter"} =>
               query.status = "ok"
        /\ query.op = "get" => query.val.t \notin Aborted

\* C30 witness: iter on a root object yielded a field whose value is an
\* array with an element.
C30_Witness ==
    /\ pc = "built"
    /\ query.op = "iter"
    /\ query.node = Document_root(document)
    /\ \E f \in ChildrenOf(document.structure.tree, query.node) :
           \E a \in ChildrenOf(document.structure.tree, f) :
               /\ Document_node_type(document, a).kind = "Array"
               /\ ChildrenOf(document.structure.tree, a) # {}
    /\ \E i \in 1..Len(query.out) : query.out[i].val.t = "Array"

====
